---- MODULE Spec2Model ----
(***************************************************************************)
(* Model of the log-tailing engine of the ServerPulse agent:               *)
(* CrashDetector (collectors/crash_detector.py) and LogMonitor             *)
(* (collectors/log_monitor.py).  Both keep a map file_positions from path  *)
(* to byte offset, initialise it in start_monitoring and advance it in     *)
(* _check_log_files, once per source and cycle.                            *)
(*                                                                         *)
(* Spec, SpecDeep and SpecRecover model one monitor instance; `kind` says *)
(* which of the two classes it is.  The log files, their writer, rotation, *)
(* removal and I/O faults are the environment.  A file is a sequence of    *)
(* bytes; NL is the line terminator.  SpecPair models the two instances    *)
(* the agent runs, tailing one file; SpecClassify models one call of       *)
(* _analyze_line on arbitrary arguments.  SpecEvent applies the functions  *)
(* that build an event (severity, cause, timestamp, the parsers) to lines  *)
(* of text; SpecAlert models one call of APIClient.send_alert; SpecStop    *)
(* adds the agent's stop, which waits for the thread; SpecDup is a         *)
(* LogMonitor with two configs for one path.  SpecRequest models one call  *)
(* of APIClient._make_request, SpecService the ServiceMonitor              *)
(* (collectors/service_monitor.py) and SpecAgent the process, from main()  *)
(* to its exit.                                                            *)
(***************************************************************************)
EXTENDS Integers, Sequences, FiniteSets, TLC

\* ------------------------------------------------------------------ bounds
\* number of things that happen to the files in a run (bytes appended,
\* rotations, truncations, removals, creations): in the runs of Spec, and
\* in the longer runs of SpecDeep
MaxEnv == 2
MaxEnvDeep == 3
\* bytes written to the file that two monitor objects tail (SpecPair)
MaxPairBytes == 3
\* length of the line and of the pattern table given to one call of
\* _analyze_line (SpecClassify)
MaxLineLen == 3
MaxPatterns == 2
\* number of phrases of a line given to the functions that build an event
\* (SpecEvent)
MaxWords == 3

\* --------------------------------------------------------------- constants
NL == "\n"
\* bytes the writer appends: "s" is matched by the pattern "s", "x" by none
Byte == {"s", "x", NL}
Whitespace == {NL, " "}

Paths == {"p1", "p2"}

\* time.sleep arguments of the two loops
CrashInterval == 5
CrashCooldown == 30
LogInterval == 10
LogCooldown == 60
\* thread.join(timeout=5) in the agent's stop
JoinTimeout == 5
\* self.timeout and self.max_retries of the APIClient
Timeout == 30
MaxRetries == 3

\* A pattern is a one-byte regex searched anywhere in the line; "(" is a
\* pattern string the regex engine rejects.
BadPattern == "("

\* compiled_patterns of the crash detector (fixed at construction) and the
\* configured pattern lists of the log monitor
CrashSources ==
  << [path |-> "p1", patterns |-> <<"s">>],
     [path |-> "p2", patterns |-> <<"s">>] >>

LogSources ==
  << [path |-> "p1", patterns |-> <<"s">>],
     [path |-> "p2", patterns |-> <<"s", BadPattern>>] >>

Monitors ==
  { [kind |-> "crash", sources |-> CrashSources],
    [kind |-> "log",   sources |-> LogSources] }

VARIABLES
  \* ---- the monitor object
  kind,            \* "crash" (CrashDetector) or "log" (LogMonitor)
  sources,         \* log_paths / log_configs, in configuration order
  running,         \* self.running
  file_positions,  \* self.file_positions: path -> offset, partial map
  \* ---- the thread running start_monitoring
  pc,              \* "start", "loop", "poll", "returned", "raised",
                   \* "sleep", "cooldown", "done", "crashed"
  cur,             \* index of the source the for loop is at
  sleepFor,        \* seconds left of the time.sleep in progress, 0 if none
  stop_event,      \* the threading.Event shared with the agent
  \* ---- the callers of stop
  stop_called,     \* stop() of the monitor object has been called
  stop_returned,   \* stop() of the agent has returned
  \* ---- the environment: files on disk
  exists,          \* path -> BOOLEAN
  ident,           \* path -> identity (inode) of the file now at the path
  content,         \* path -> bytes of the file
  envOps,          \* appends, rotations, truncations, removals so far
  budget,          \* how many of them the run has
  \* ---- history
  batches,         \* source index -> lines readlines() has returned so far
  handed,          \* source index -> lines passed to _analyze_line so far
  sink_calls,      \* callback invocations so far, in order
  cycleLog,        \* outcome of each source iteration of the current cycle
  startLen,        \* path -> size of the file when start_monitoring ran
  polledLen,       \* path -> size of the file when the monitor last read it
  seenIdent,       \* path -> identity of the file the monitor last read,
                   \* NoFile when its last poll found the path missing
  disturbed,       \* paths that were missing or unreadable at the start, or
                   \* rotated, truncated, removed or created since
  \* ---- two monitor objects tailing one file (SpecPair)
  shared,          \* bytes of the file both of them tail
  inst,            \* instance -> its own fields and what it has read
  \* ---- one call of _analyze_line (SpecClassify)
  arg_line,        \* the line passed to it
  arg_patterns,    \* the pattern table it is to use
  arg_parser,      \* SpecEvent: the kind of source the line comes from
  result,          \* "pending" before the call, then what it returned
  \* ---- one call of send_alert (SpecAlert)
  alert,           \* where the call is, and what it has done so far
  \* ---- the ServiceMonitor and its thread (SpecService)
  svc,             \* its fields, where its loop is, what it last did
  \* ---- the process running main() (SpecAgent)
  agent            \* where ServerPulseAgent.start is, what it has started

tailVars == << kind, sources, running, file_positions, pc, cur, sleepFor,
               stop_event, exists, ident, content, envOps, budget,
               batches, handed, sink_calls, cycleLog, startLen, polledLen,
               seenIdent, disturbed, stop_called, stop_returned >>
pairVars == << shared, inst >>
classifyVars == << arg_line, arg_patterns, arg_parser, result >>
auxVars == << pairVars, classifyVars, alert, svc, agent >>

vars == << tailVars, pairVars, classifyVars, alert, svc, agent >>

monVars == << kind, sources, running, file_positions, pc, cur, sleepFor >>
envVars == << exists, ident, content, envOps, budget >>
histVars == << batches, handed, sink_calls, cycleLog, startLen,
              polledLen, seenIdent, disturbed >>

NoFile == 0 - 1

NumSources == Len(sources)
SrcIdx == 1..NumSources

\* ------------------------------------------------------------ pure helpers
\* the bytes of f after position pos
Rest(f, pos) == IF pos >= Len(f) THEN <<>> ELSE SubSeq(f, pos + 1, Len(f))

\* length of the first line of the non-empty byte sequence s: up to and
\* including the first terminator, or all of s when it has none
RECURSIVE FirstLineLen(_)
FirstLineLen(s) ==
  IF Len(s) = 1 \/ Head(s) = NL THEN 1 ELSE 1 + FirstLineLen(Rest(s, 1))

\* f.readlines() on the remaining bytes s: every line keeps its terminator,
\* and a last piece without terminator is returned as a line too
RECURSIVE SplitLines(_)
SplitLines(s) ==
  IF s = <<>> THEN <<>>
  ELSE LET n == FirstLineLen(s)
       IN  <<SubSeq(s, 1, n)>> \o SplitLines(Rest(s, n))

\* f.seek(pos); f.readlines()
ReadLines(f, pos) == SplitLines(Rest(f, pos))

\* an offset that a read does not move
TellKeepsPos(f, pos) == pos

\* a tell that is the end of the file whatever the offset sought
TellEndOfFile(f, pos) == Len(f)

\* f.tell() after f.seek(pos); f.readlines(): end of file, or pos itself
\* when pos lies beyond the end of the file
Tell(f, pos) == IF pos > Len(f) THEN pos ELSE Len(f)

\* a get whose default is the end of the file
CurrentPosDefaultEnd(p) ==
  IF p \in DOMAIN file_positions THEN file_positions[p] ELSE Len(content[p])

\* self.file_positions.get(log_path, 0)
CurrentPos(p) == IF p \in DOMAIN file_positions THEN file_positions[p] ELSE 0

\* self.file_positions[log_path] = v
SetPos(fp, p, v) ==
  [q \in (DOMAIN fp) \cup {p} |-> IF q = p THEN v ELSE fp[q]]

\* line.strip()
RECURSIVE LStrip(_)
LStrip(s) ==
  IF s # <<>> /\ Head(s) \in Whitespace THEN LStrip(Rest(s, 1)) ELSE s

RECURSIVE RStrip(_)
RStrip(s) ==
  IF s # <<>> /\ s[Len(s)] \in Whitespace
  THEN RStrip(SubSeq(s, 1, Len(s) - 1)) ELSE s

Strip(s) == RStrip(LStrip(s))

\* pattern.search(line) / re.search(pattern, line, re.IGNORECASE)
Search(pat, line) == \E k \in 1..Len(line) : line[k] = pat

\* a search that consults the patterns of the table last one first
RECURSIVE MatchFromLast(_, _, _)
MatchFromLast(pats, k, line) ==
  LET j == Len(pats) + 1 - k
  IN  IF k > Len(pats) THEN "none"
      ELSE IF pats[j] = BadPattern THEN "raise"
      ELSE IF Search(pats[j], line) THEN pats[j]
      ELSE MatchFromLast(pats, k + 1, line)

\* _analyze_line on the stripped line: "none" for no event, "raise" when
\* the regex engine rejects the pattern it is asked to search, otherwise
\* the pattern that matched first in table order
RECURSIVE MatchFrom(_, _, _)
MatchFrom(pats, k, line) ==
  IF k > Len(pats) THEN "none"
  ELSE IF pats[k] = BadPattern THEN "raise"
  ELSE IF Search(pats[k], line) THEN pats[k]
  ELSE MatchFrom(pats, k + 1, line)

\* an analysis that makes an event of every line that is not empty
analyze_line_always(line, pats) ==
  IF line = <<>> \/ pats = <<>> THEN "none" ELSE pats[1]

analyze_line(line, pats) ==
  IF line = <<>> THEN "none" ELSE MatchFrom(pats, 1, line)

Interval == IF kind = "crash" THEN CrashInterval ELSE LogInterval
Cooldown == IF kind = "crash" THEN CrashCooldown ELSE LogCooldown

\* ------------------------------------------------- the body of the for loop
\* a loop that analyses the whole batch before it calls the callback: an
\* exception of the analysis then leaves the events of the lines before it
\* undelivered
RECURSIVE ProcessFromDeferred(_, _, _, _)
ProcessFromDeferred(i, batch, k, failAt) ==
  IF k > Len(batch) THEN [n |-> 0, calls |-> <<>>, exc |-> "none"]
  ELSE LET line == Strip(batch[k])
           r    == analyze_line(line, sources[i].patterns)
           rest == ProcessFromDeferred(i, batch, k + 1, failAt)
           call == [src |-> i, line |-> line, pattern |-> r]
       IN  IF r = "raise" THEN [n |-> 1, calls |-> <<>>, exc |-> "analyze"]
           ELSE IF rest.exc = "analyze"
             THEN [n |-> 1 + rest.n, calls |-> <<>>, exc |-> "analyze"]
           ELSE IF r = "none"
             THEN [n |-> 1 + rest.n, calls |-> rest.calls, exc |-> rest.exc]
           ELSE IF failAt = k
             THEN [n |-> 1, calls |-> <<call>>, exc |-> "sink"]
           ELSE [n |-> 1 + rest.n, calls |-> <<call>> \o rest.calls,
                 exc |-> rest.exc]

\* for line in new_lines: analyse line.strip(), call the callback on an
\* event.  The loop ends at the first exception, raised by the analysis or
\* by the callback (the sink raises at line failAt; 0 means it never does).
\* Result: how many lines were analysed, the callback invocations made, and
\* the exception that ended the loop, if any.
RECURSIVE ProcessFrom(_, _, _, _)
ProcessFrom(i, batch, k, failAt) ==
  IF k > Len(batch) THEN [n |-> 0, calls |-> <<>>, exc |-> "none"]
  ELSE LET line == Strip(batch[k])
           r    == analyze_line(line, sources[i].patterns)
           rest == ProcessFrom(i, batch, k + 1, failAt)
           call == [src |-> i, line |-> line, pattern |-> r]
       IN  IF r = "raise" THEN [n |-> 1, calls |-> <<>>, exc |-> "analyze"]
           ELSE IF r = "none"
             THEN [n |-> 1 + rest.n, calls |-> rest.calls, exc |-> rest.exc]
           ELSE IF failAt = k
             THEN [n |-> 1, calls |-> <<call>>, exc |-> "sink"]
           ELSE [n |-> 1 + rest.n, calls |-> <<call>> \o rest.calls,
                 exc |-> rest.exc]

\* lines of the batch at which the callback is invoked
EventLines(i, batch) ==
  { k \in 1..Len(batch) :
      analyze_line(Strip(batch[k]), sources[i].patterns)
        \notin {"none", "raise"} }


\* -------------------------------------------------------------------- Init
\* State after __init__: running False, file_positions empty.  Both files
\* exist, with the bytes c in them.
InitMonitor(b, c, ms) ==
  /\ budget = b
  /\ \E m \in ms : kind = m.kind /\ sources = m.sources
  /\ running = FALSE
  /\ file_positions = << >>
  /\ pc = "start"
  /\ cur = 0
  /\ sleepFor = 0
  /\ stop_event = FALSE
  /\ exists = [p \in Paths |-> TRUE]
  /\ content = c
  /\ ident = [p \in Paths |-> 0]
  /\ envOps = 0
  /\ batches = [i \in SrcIdx |-> <<>>]
  /\ handed = [i \in SrcIdx |-> <<>>]
  /\ sink_calls = <<>>
  /\ cycleLog = <<>>
  /\ startLen = [p \in Paths |-> 0]
  /\ polledLen = [p \in Paths |-> 0]
  /\ seenIdent = [p \in Paths |-> 0]
  /\ disturbed = {}
  /\ stop_called = FALSE
  /\ stop_returned = FALSE

InitFiles(b, c) == InitMonitor(b, c, Monitors)

\* the two monitor objects on one file, and the single call of
\* _analyze_line, when they are not part of the run
Instances == {"crash_detector", "log_monitor"}
PairIdle ==
  /\ shared = <<>>
  /\ inst = [m \in Instances |-> << >>]
ClassifyIdle ==
  /\ arg_line = <<>>
  /\ arg_patterns = <<>>
  /\ arg_parser = "none"
  /\ result = "none"
AlertIdle == alert = [pc |-> "idle"]
ServiceIdle == svc = [pc |-> "idle"]
AgentIdle == agent = [pc |-> "idle"]
AuxIdle ==
  PairIdle /\ ClassifyIdle /\ AlertIdle /\ ServiceIdle /\ AgentIdle

\* Both files are empty; what is in them (or that they are missing) when
\* the thread starts is what the environment does to them before it starts.
InitWith(b) == InitFiles(b, [p \in Paths |-> <<>>]) /\ AuxIdle

Init == InitWith(MaxEnv)
InitDeep == InitWith(MaxEnvDeep)

\* The first file holds a line already when the monitor, a CrashDetector,
\* is constructed.
Backlog == <<"s", NL>>
InitRecover ==
  /\ InitMonitor(MaxEnvDeep,
                 [p \in Paths |-> IF p = "p1" THEN Backlog ELSE <<>>],
                 { m \in Monitors : m.kind = "crash" })
  /\ AuxIdle

\* --------------------------------------------------------- start_monitoring
\* Path(log_path).exists()
PathExists(p) == exists[p]

\* The offset start_monitoring stores for an existing path: end of file
\* (f.seek(0, 2); f.tell()), or 0 when open() raised
InitialPos(p, openRaised) == IF openRaised THEN 0 ELSE Len(content[p])

\* The for loop that initialises file_positions.  It runs up to the source
\* at which the existence check raises (firstRaise; NumSources + 1 when
\* none does); noOpen are the paths whose open() raises.
InitPositions(firstRaise, noOpen) ==
  LET seen == { sources[i].path : i \in 1..(firstRaise - 1) }
  IN  [p \in { q \in seen : PathExists(q) } |-> InitialPos(p, p \in noOpen)]

\* self.running = True, then the initialisation loop.  Path.exists() is a
\* stat of the path: it raises PermissionError when the stat is refused (a
\* directory on the way to the file cannot be searched).  That exception is
\* not caught here and ends start_monitoring.
start_monitoring ==
  /\ pc = "start"
  /\ \E firstRaise \in 1..(NumSources + 1), noOpen \in SUBSET Paths :
       /\ \A p \in noOpen : PathExists(p)
       /\ running' = TRUE
       /\ file_positions' = InitPositions(firstRaise, noOpen)
       /\ pc' = IF firstRaise <= NumSources THEN "crashed" ELSE "loop"
       /\ disturbed' = { p \in Paths : ~PathExists(p) \/ p \in noOpen }
  /\ startLen' = [p \in Paths |-> Len(content[p])]
  /\ polledLen' = [p \in Paths |-> Len(content[p])]
  /\ seenIdent' = ident
  /\ UNCHANGED << auxVars, stop_called, stop_returned >>
  /\ UNCHANGED << kind, sources, cur, sleepFor, stop_event, envVars,
                  batches, handed, sink_calls, cycleLog >>

\* while not stop_event.is_set() and self.running: the condition holds and
\* _check_log_files is called
begin_cycle ==
  /\ pc = "loop"
  /\ ~stop_event /\ running
  /\ pc' = "poll"
  /\ cur' = 1
  /\ UNCHANGED << auxVars, stop_called, stop_returned >>
  /\ UNCHANGED << kind, sources, running, file_positions, sleepFor,
                  stop_event, envVars, histVars >>

\* the condition fails and start_monitoring returns
exit_loop ==
  /\ pc = "loop"
  /\ stop_event \/ ~running
  /\ pc' = "done"
  /\ UNCHANGED << auxVars, stop_called, stop_returned >>
  /\ UNCHANGED << kind, sources, running, file_positions, cur, sleepFor,
                  stop_event, envVars, histVars >>

\* The time.sleep that ends the cycle: the normal interval after
\* _check_log_files has returned, the cooldown in the handler of the while
\* loop after it has raised.
SleepTime(state) == IF state = "returned" THEN Interval ELSE Cooldown

sleep ==
  /\ pc \in {"returned", "raised"}
  /\ pc' = IF pc = "returned" THEN "sleep" ELSE "cooldown"
  /\ sleepFor' = SleepTime(pc)
  /\ cycleLog' = <<>>
  /\ UNCHANGED << auxVars, stop_called, stop_returned >>
  /\ UNCHANGED << kind, sources, running, file_positions, cur,
                  stop_event, envVars, batches, handed, sink_calls,
                  startLen, polledLen, seenIdent, disturbed >>

\* Time passes while the thread is inside time.sleep.  time.sleep does not
\* look at stop_event or self.running: nothing but the passing of the whole
\* interval ends it.
time_passes ==
  /\ pc \in {"sleep", "cooldown"}
  /\ sleepFor > 0
  /\ sleepFor' = 0
  /\ UNCHANGED << auxVars, stop_called, stop_returned >>
  /\ UNCHANGED << kind, sources, running, file_positions, pc, cur,
                  stop_event, envVars, histVars >>

\* time.sleep returns, the interval being over
wake ==
  /\ pc \in {"sleep", "cooldown"}
  /\ sleepFor = 0
  /\ pc' = "loop"
  /\ sleepFor' = 0
  /\ UNCHANGED << auxVars, stop_called, stop_returned >>
  /\ UNCHANGED << kind, sources, running, file_positions, cur,
                  stop_event, envVars, histVars >>

\* --------------------------------------------------------- _check_log_files
\* One action per way an iteration of `for log_path in self.log_paths` can
\* go; cur is the source the loop is at.
CurPath == sources[cur].path

\* the loop moves on to the next source, or _check_log_files returns
NextSource(tag) ==
  /\ cycleLog' = Append(cycleLog, tag)
  /\ sleepFor' = 0
  /\ IF cur < NumSources
     THEN cur' = cur + 1 /\ pc' = "poll"
     ELSE cur' = 0 /\ pc' = "returned"

\* a while loop without handler: the exception ends start_monitoring
LoopLevelErrorEscapes(tag) ==
  /\ cycleLog' = Append(cycleLog, tag)
  /\ sleepFor' = 0
  /\ cur' = 0
  /\ pc' = "crashed"

\* an exception leaves _check_log_files and reaches the `except Exception`
\* of the while loop
LoopLevelError(tag) ==
  /\ cycleLog' = Append(cycleLog, tag)
  /\ sleepFor' = 0
  /\ cur' = 0
  /\ pc' = "raised"

\* a handler that lets I/O errors through (except for the analysis and the
\* callback only)
CaughtExceptIO(exc) == exc \in {"analyze", "sink"}

\* Which exceptions of an iteration its `except Exception` handles: those
\* raised inside the try block, that is by open(), readlines(),
\* _analyze_line and the callback.  The existence check is before the try.
Caught(exc) == exc \in {"open", "read", "analyze", "sink"}

Tag(exc) ==
  CASE exc = "none"    -> "ok"
    [] exc = "stat"    -> "stat_error"
    [] exc = "open"    -> "open_error"
    [] exc = "read"    -> "read_error"
    [] exc = "analyze" -> "analyze_error"
    [] exc = "sink"    -> "sink_error"

\* how the iteration ends after exception exc ("none" for no exception)
EndIteration(exc) ==
  IF exc = "none" \/ Caught(exc)
  THEN NextSource(Tag(exc))
  ELSE LoopLevelError(Tag(exc))

\* Path(log_path).exists() raises
check_stat_error ==
  /\ pc = "poll"
  /\ EndIteration("stat")
  /\ UNCHANGED << auxVars, stop_called, stop_returned >>
  /\ UNCHANGED << kind, sources, running, file_positions, stop_event,
                  envVars, batches, handed, sink_calls, startLen,
                  polledLen, seenIdent, disturbed >>

\* a missing file treated as a file that starts over: the offset is reset
check_missing_resets ==
  /\ pc = "poll"
  /\ ~PathExists(CurPath)
  /\ NextSource("missing")
  /\ file_positions' = SetPos(file_positions, CurPath, 0)
  /\ seenIdent' = [seenIdent EXCEPT ![CurPath] = NoFile]
  /\ UNCHANGED << auxVars, stop_called, stop_returned >>
  /\ UNCHANGED << kind, sources, running, stop_event, envVars, batches,
                  handed, sink_calls, startLen, polledLen, disturbed >>

\* if not Path(log_path).exists(): continue
check_missing ==
  /\ pc = "poll"
  /\ ~PathExists(CurPath)
  /\ NextSource("missing")
  /\ seenIdent' = [seenIdent EXCEPT ![CurPath] = NoFile]
  /\ UNCHANGED << auxVars, stop_called, stop_returned >>
  /\ UNCHANGED << kind, sources, running, file_positions, stop_event,
                  envVars, batches, handed, sink_calls, startLen,
                  polledLen, disturbed >>

\* open() raises (permission denied, the path is a directory) or
\* readlines() raises (bytes that cannot be decoded): file_positions has
\* not been assigned yet
check_io_error ==
  /\ pc = "poll"
  /\ PathExists(CurPath)
  /\ \E exc \in {"open", "read"} : EndIteration(exc)
  /\ UNCHANGED << auxVars, stop_called, stop_returned >>
  /\ UNCHANGED << kind, sources, running, file_positions, stop_event,
                  envVars, batches, handed, sink_calls, startLen,
                  polledLen, seenIdent, disturbed >>

\* The file is opened and read: seek to the stored offset, readlines,
\* store f.tell(), then analyse the lines and call the callback.  The
\* offset has been stored when the analysis or the callback raises.
check_read ==
  /\ pc = "poll"
  /\ PathExists(CurPath)
  /\ LET p     == CurPath
         f     == content[p]
         pos   == CurrentPos(p)
         batch == ReadLines(f, pos)
     IN  \E failAt \in {0} \cup EventLines(cur, batch) :
           LET res == ProcessFrom(cur, batch, 1, failAt)
           IN  /\ file_positions' = SetPos(file_positions, p, Tell(f, pos))
               /\ batches' = [batches EXCEPT ![cur] = @ \o batch]
               /\ handed' = [handed EXCEPT
                               ![cur] = @ \o SubSeq(batch, 1, res.n)]
               /\ sink_calls' = sink_calls \o res.calls
               /\ EndIteration(res.exc)
               /\ polledLen' = [polledLen EXCEPT ![p] = Len(f)]
               /\ seenIdent' = [seenIdent EXCEPT ![p] = ident[p]]
  /\ UNCHANGED << auxVars, stop_called, stop_returned >>
  /\ UNCHANGED << kind, sources, running, stop_event, envVars, startLen,
                  disturbed >>

\* ------------------------------------------------------------------- stop
\* CrashDetector.stop / LogMonitor.stop: self.running = False.  It can run
\* at any time, also before the thread has executed self.running = True.
stop ==
  /\ pc \notin {"done", "crashed"}
  /\ running \/ pc = "start"
  /\ running' = FALSE
  /\ stop_called' = TRUE
  /\ UNCHANGED << auxVars, stop_returned >>
  /\ UNCHANGED << kind, sources, file_positions, pc, cur, sleepFor,
                  stop_event, envVars, histVars >>

\* the agent sets the shared stop_event
set_stop_event ==
  /\ pc \notin {"done", "crashed"}
  /\ ~stop_event
  /\ stop_event' = TRUE
  /\ UNCHANGED << auxVars, stop_called, stop_returned >>
  /\ UNCHANGED << monVars, envVars, histVars >>

\* thread.join(timeout=5) of the agent's stop returns: the thread has
\* ended, or it is in a place where it stays for the whole timeout: in a
\* time.sleep that has at least that long to go, or in an iteration, whose
\* callback (send_alert with its retries) takes longer.  The agent's stop
\* has then returned.
join_returns ==
  /\ stop_event
  /\ ~stop_returned
  /\ \/ pc \in {"done", "crashed"} /\ UNCHANGED sleepFor
     \/ pc = "poll" /\ UNCHANGED sleepFor
     \/ /\ pc \in {"sleep", "cooldown"}
        /\ sleepFor >= JoinTimeout
        /\ sleepFor' = sleepFor - JoinTimeout
  /\ stop_returned' = TRUE
  /\ UNCHANGED << auxVars, stop_called >>
  /\ UNCHANGED << kind, sources, running, file_positions, pc, cur,
                  stop_event, envVars, histVars >>

\* ------------------------------------------------------------ environment
\* The files change before the thread starts and between two cycles, when
\* the thread is about to test the condition of its while loop, as long as
\* nobody has asked it to stop.  An iteration reads its file in one step,
\* so a change made during a cycle or a sleep has the effect of the same
\* change made at the next test of the condition.
Live ==
  /\ pc \in {"start", "loop"}
  /\ ~stop_event /\ ~stop_called
  /\ running \/ pc = "start"
  /\ envOps < budget

EnvStep(p, disturbs) ==
  /\ Live
  /\ envOps' = envOps + 1
  /\ disturbed' = IF disturbs /\ pc # "start"
                  THEN disturbed \cup {p} ELSE disturbed
  /\ UNCHANGED << auxVars, stop_called, stop_returned >>
  /\ UNCHANGED << monVars, stop_event, budget, batches, handed,
                  sink_calls, cycleLog, startLen, polledLen, seenIdent >>

\* the writer appends one byte to the file at p
Append1(p, b) ==
  /\ exists[p]
  /\ EnvStep(p, FALSE)
  /\ content' = [content EXCEPT ![p] = Append(@, b)]
  /\ UNCHANGED << exists, ident >>

\* log rotation: the file at p is replaced by a new, empty file
Rotate(p) ==
  /\ exists[p]
  /\ EnvStep(p, TRUE)
  /\ ident' = [ident EXCEPT ![p] = envOps + 1]
  /\ content' = [content EXCEPT ![p] = <<>>]
  /\ UNCHANGED exists

\* the file at p is truncated in place
Truncate(p) ==
  /\ exists[p]
  /\ content[p] # <<>>
  /\ EnvStep(p, TRUE)
  /\ content' = [content EXCEPT ![p] = <<>>]
  /\ UNCHANGED << exists, ident >>

\* the file at p is removed
Remove(p) ==
  /\ exists[p]
  /\ EnvStep(p, TRUE)
  /\ exists' = [exists EXCEPT ![p] = FALSE]
  /\ content' = [content EXCEPT ![p] = <<>>]
  /\ UNCHANGED ident

\* a new, empty file appears at p
Create(p) ==
  /\ ~exists[p]
  /\ EnvStep(p, TRUE)
  /\ exists' = [exists EXCEPT ![p] = TRUE]
  /\ ident' = [ident EXCEPT ![p] = envOps + 1]
  /\ UNCHANGED content

Write == \E p \in Paths, b \in Byte : Append1(p, b)
RotateAny == \E p \in Paths : Rotate(p)
TruncateAny == \E p \in Paths : Truncate(p)
RemoveAny == \E p \in Paths : Remove(p)
CreateAny == \E p \in Paths : Create(p)

Next ==
  \/ start_monitoring
  \/ begin_cycle
  \/ exit_loop
  \/ sleep
  \/ time_passes
  \/ wake
  \/ check_stat_error
  \/ check_missing
  \/ check_io_error
  \/ check_read
  \/ stop
  \/ set_stop_event
  \/ Write
  \/ RotateAny
  \/ TruncateAny
  \/ RemoveAny
  \/ CreateAny

Spec == Init /\ [][Next]_vars
SpecDeep == InitDeep /\ [][Next]_vars
SpecRecover == InitRecover /\ [][Next]_vars

\* A LogMonitor whose two configs name the same file, with different
\* patterns.
DupSources ==
  << [path |-> "p1", patterns |-> << "s" >>],
     [path |-> "p1", patterns |-> << "x" >>] >>
InitDup ==
  /\ InitMonitor(MaxEnv, [p \in Paths |-> <<>>],
                 { [kind |-> "log", sources |-> DupSources] })
  /\ AuxIdle
SpecDup == InitDup /\ [][Next]_vars

\* the same run with the agent's stop waiting for the thread
NextStop == Next \/ join_returns
SpecStop == Init /\ [][NextStop]_vars

TypeOK ==
  /\ pc \in {"start", "loop", "poll", "returned", "raised", "sleep",
            "cooldown", "done", "crashed"}
  /\ cur \in 0..NumSources
  /\ DOMAIN file_positions \subseteq Paths
  /\ \A p \in DOMAIN file_positions : file_positions[p] \in Nat
  /\ envOps \in 0..budget

\* ================================================================ claims
Range(s) == { s[k] : k \in 1..Len(s) }

Unterminated(line) == line[Len(line)] # NL

\* the complete lines of the bytes s, without an unterminated last piece
CompleteLines(s) ==
  LET all == SplitLines(s)
  IN  IF all # <<>> /\ Unterminated(all[Len(all)])
      THEN SubSeq(all, 1, Len(all) - 1) ELSE all

IsPrefix(a, b) == Len(a) <= Len(b) /\ a = SubSeq(b, 1, Len(a))

\* position k of the file f is the start of the file or the end of a line
IsBoundary(f, k) == k = 0 \/ (k <= Len(f) /\ f[k] = NL)

\* this step is an iteration of the for loop over source i
IterStep(i) ==
  /\ pc = "poll"
  /\ cur = i
  /\ Len(cycleLog') = Len(cycleLog) + 1

LastTag(log) == log[Len(log)]

\* ... in which the file was opened and read
ReadStep(i) ==
  /\ IterStep(i)
  /\ LastTag(cycleLog') \in {"ok", "analyze_error", "sink_error"}

\* the iteration read the file of source i from its first line
ReadFromStart(i) ==
  LET f == content[sources[i].path]
  IN  batches'[i] \in { batches[i] \o ReadLines(f, 0),
                        batches[i] \o CompleteLines(f) }

\* ------------------------------------- two monitor objects on one file
\* The agent constructs one CrashDetector and one LogMonitor and runs
\* start_monitoring of each on a thread of its own.  Each object has the
\* file_positions dict its __init__ created.  Here both are configured with
\* the same path, whose file exists and is only appended to.
SharedPath == "p1"

InitPair ==
  /\ InitFiles(0, [p \in Paths |-> <<>>])
  /\ ClassifyIdle
  /\ AlertIdle
  /\ ServiceIdle
  /\ AgentIdle
  /\ shared = <<>>
  /\ inst = [m \in Instances |->
              [started |-> FALSE, file_positions |-> << >>,
               batches |-> <<>>, startLen |-> 0, partial |-> FALSE]]

\* self.file_positions.get(log_path, 0) of instance m
OwnPos(m) ==
  LET fp == inst[m].file_positions
  IN  IF SharedPath \in DOMAIN fp THEN fp[SharedPath] ELSE 0

\* the initialisation loop of start_monitoring of instance m: the offset
\* of the existing file is its end
pair_start(m) ==
  /\ ~inst[m].started
  /\ inst' = [inst EXCEPT ![m] =
                [@ EXCEPT !.started = TRUE,
                          !.file_positions = SetPos(@, SharedPath, Len(shared)),
                          !.startLen = Len(shared)]]
  /\ UNCHANGED << tailVars, classifyVars, alert, svc, agent, shared >>

\* a file_positions dict that belongs to the class: a poll of one instance
\* stores the offset for every instance
pair_poll_shared(m) ==
  /\ inst[m].started
  /\ LET pos   == OwnPos(m)
         batch == ReadLines(shared, pos)
     IN  inst' = [o \in Instances |->
                   [inst[o] EXCEPT
                      !.file_positions =
                         SetPos(@, SharedPath, Tell(shared, pos)),
                      !.batches = IF o = m THEN @ \o batch ELSE @]]
  /\ UNCHANGED << tailVars, classifyVars, alert, svc, agent, shared >>

\* one iteration of _check_log_files of instance m on the shared path:
\* it reads and writes self.file_positions of m and nothing else
pair_poll(m) ==
  /\ inst[m].started
  /\ LET pos   == OwnPos(m)
         batch == ReadLines(shared, pos)
     IN  inst' = [inst EXCEPT ![m] =
                   [@ EXCEPT
                      !.file_positions =
                         SetPos(@, SharedPath, Tell(shared, pos)),
                      !.batches = @ \o batch,
                      !.partial = @ \/ ( /\ batch # <<>>
                                        /\ Unterminated(batch[Len(batch)]) )]]
  /\ UNCHANGED << tailVars, classifyVars, alert, svc, agent, shared >>

\* the writer appends one byte to the shared file
pair_write(b) ==
  /\ Len(shared) < MaxPairBytes
  /\ shared' = Append(shared, b)
  /\ UNCHANGED << tailVars, classifyVars, alert, svc, agent, inst >>

PairStart == \E m \in Instances : pair_start(m)
PairPoll == \E m \in Instances : pair_poll(m)
PairWrite == \E b \in Byte : pair_write(b)

NextPair ==
  \/ PairStart
  \/ PairPoll
  \/ PairWrite

SpecPair == InitPair /\ [][NextPair]_vars

\* ---------------------------------------------- one call of _analyze_line
\* _analyze_line(line, config) as a function of its arguments: every line
\* of up to MaxLineLen bytes and every table of up to MaxPatterns pattern
\* strings, the one the regex engine rejects among them.
LineByte == {"s", "x", " "}
PatternStrings == {"s", "x", BadPattern}
SeqsUpTo(S, n) == UNION { [1..k -> S] : k \in 0..n }

InitClassify ==
  /\ InitFiles(0, [p \in Paths |-> <<>>])
  /\ PairIdle
  /\ AlertIdle
  /\ ServiceIdle
  /\ AgentIdle
  /\ arg_line \in SeqsUpTo(LineByte, MaxLineLen)
  /\ arg_patterns \in SeqsUpTo(PatternStrings, MaxPatterns)
  /\ arg_parser = "none"
  /\ result = "pending"

classify ==
  /\ result = "pending"
  /\ result' = analyze_line(arg_line, arg_patterns)
  /\ UNCHANGED << tailVars, pairVars, alert, svc, agent, arg_line, arg_patterns,
                  arg_parser >>

NextClassify == classify

SpecClassify == InitClassify /\ [][NextClassify]_vars

\* ------------------------------------------------ the fields of an event
\* Lines are strings here.  `t in s`, s.lower() and the regular expressions
\* the code uses to build an event, computed on the characters.
Contains(s, t) ==
  \E i \in 1..(Len(s) - Len(t) + 1) : SubSeq(s, i, i + Len(t) - 1) = t

Uppercase == "ABCDEFGHIJKLMNOPQRSTUVWXYZ"
Lowercase == "abcdefghijklmnopqrstuvwxyz"

\* the characters of a string, as a set
Chars(str) == { SubSeq(str, i, i) : i \in 1..Len(str) }

LowerOf ==
  [c \in Chars(Uppercase) |->
     LET i == CHOOSE j \in 1..Len(Uppercase) : SubSeq(Uppercase, j, j) = c
     IN  SubSeq(Lowercase, i, i)]

LowerChar(c) == IF c \in DOMAIN LowerOf THEN LowerOf[c] ELSE c

\* str.lower()
RECURSIVE ToLower(_)
ToLower(s) ==
  IF s = "" THEN ""
  ELSE LowerChar(SubSeq(s, 1, 1)) \o ToLower(SubSeq(s, 2, Len(s)))

\* any(word in s for word in words)
AnyIn(words, s) == \E w \in words : Contains(s, w)

\* A regular expression without alternation: a sequence of elements, each
\* a character class (the set of its characters) with a least and a
\* greatest number of repetitions, all greedy; and the elements its group
\* spans.
Unbounded == 0 - 1
Digits == Chars("0123456789")
WordChars == Chars(Lowercase) \cup Chars(Uppercase) \cup Digits \cup { "_" }
SpaceChars == { " ", "\t" }
Times(cls, n) == << [cls |-> cls, min |-> n, max |-> n] >>
Between(cls, n, m) == << [cls |-> cls, min |-> n, max |-> m] >>
Plus(cls) == << [cls |-> cls, min |-> 1, max |-> Unbounded] >>
Lit(str) == [i \in 1..Len(str) |->
              [cls |-> { SubSeq(str, i, i) }, min |-> 1, max |-> 1]]

NoMatch == << 0 - 1 >>

\* how many characters of s after position pos are of the class, at most n
RECURSIVE RunLen(_, _, _, _)
RunLen(cls, s, pos, n) ==
  IF n = 0 \/ pos >= Len(s) \/ SubSeq(s, pos + 1, pos + 1) \notin cls
  THEN 0
  ELSE 1 + RunLen(cls, s, pos + 1, n - 1)

\* The backtracking match of the elements k.. at position pos: the end
\* position of each of them, or NoMatch.  An element takes as many
\* characters as it can and gives them back one by one while the rest of
\* the expression does not match.
RECURSIVE MatchElems(_, _, _, _), TryCounts(_, _, _, _, _)
MatchElems(elems, k, s, pos) ==
  IF k > Len(elems) THEN <<>>
  ELSE TryCounts(elems, k, s, pos, RunLen(elems[k].cls, s, pos, elems[k].max))

TryCounts(elems, k, s, pos, n) ==
  IF n < elems[k].min THEN NoMatch
  ELSE LET r == MatchElems(elems, k + 1, s, pos + n)
       IN  IF r # NoMatch THEN << pos + n >> \o r
           ELSE TryCounts(elems, k, s, pos, n - 1)

\* re.search(regex, s) tries the start positions from p on, left to
\* right: group(1) of the first match, or "absent" when there is none
RECURSIVE SearchFrom(_, _, _)
SearchFrom(re, s, p) ==
  IF p > Len(s) THEN "absent"
  ELSE LET ends == MatchElems(re.elems, 1, s, p)
           from == IF re.first = 1 THEN p ELSE ends[re.first - 1]
       IN  IF ends # NoMatch THEN SubSeq(s, from + 1, ends[re.last])
           ELSE SearchFrom(re, s, p + 1)

ReGroup(re, s) == SearchFrom(re, s, 0)

Min(S) == CHOOSE q \in S : \A r \in S : q <= r

\* _extract_timestamp: the patterns are tried in order on the whole line,
\* and the time of the call is the answer when none matches
D(n) == Times(Digits, n)
Clock == D(2) \o Lit(":") \o D(2) \o Lit(":") \o D(2)
Date == D(4) \o Lit("-") \o D(2) \o Lit("-") \o D(2)
Whole(elems) == [elems |-> elems, first |-> 1, last |-> Len(elems)]
SyslogTime ==
  Whole(Times(WordChars, 3) \o Plus(SpaceChars) \o Between(Digits, 1, 2)
        \o Plus(SpaceChars) \o Clock)
IsoTime == Whole(Date \o Lit("T") \o Clock)
IsoSpaceTime == Whole(Date \o Plus(SpaceChars) \o Clock)
ClfTime ==
  Whole(D(2) \o Lit("/") \o Times(WordChars, 3) \o Lit("/") \o D(4)
        \o Lit(":") \o Clock)
\* the same patterns with the ISO forms tried first
crash_timestamp_patterns_iso_first == << IsoTime, IsoSpaceTime, SyslogTime >>

crash_timestamp_patterns == << SyslogTime, IsoTime, IsoSpaceTime >>
log_timestamp_patterns == << SyslogTime, IsoTime, IsoSpaceTime, ClfTime >>
Now == "now"

RECURSIVE extract_timestamp(_, _)
extract_timestamp(timestamp_patterns, line) ==
  IF timestamp_patterns = <<>> THEN Now
  ELSE LET match == ReGroup(Head(timestamp_patterns), line)
       IN  IF match # "absent" THEN match
           ELSE extract_timestamp(Tail(timestamp_patterns), line)

\* a scan that looks for the warning keywords before the error keywords
determine_severity_warning_first(line) ==
  LET line_lower == ToLower(line)
  IN  IF AnyIn({"panic", "oops", "fatal", "critical"}, line_lower)
      THEN "critical"
      ELSE IF AnyIn({"warning", "warn"}, line_lower)
      THEN "medium"
      ELSE IF AnyIn({"error", "fail", "segfault"}, line_lower)
      THEN "high"
      ELSE "low"

\* CrashDetector._determine_severity
determine_severity(line) ==
  LET line_lower == ToLower(line)
  IN  IF AnyIn({"panic", "oops", "fatal", "critical"}, line_lower)
      THEN "critical"
      ELSE IF AnyIn({"error", "fail", "segfault"}, line_lower)
      THEN "high"
      ELSE IF AnyIn({"warning", "warn"}, line_lower)
      THEN "medium"
      ELSE "low"

\* a decision list with the segfault rule before the kernel rule
determine_cause_segfault_first(line) ==
  LET line_lower == ToLower(line)
      has(w) == Contains(line_lower, w)
  IN  IF has("segfault")
      THEN "segmentation_fault"
      ELSE IF has("kernel") /\ (has("panic") \/ has("oops"))
      THEN "kernel_panic"
      ELSE IF has("out of memory") \/ has("oom")
      THEN "out_of_memory"
      ELSE IF has("hardware error") \/ has("machine check")
      THEN "hardware_error"
      ELSE IF has("filesystem") /\ has("error")
      THEN "filesystem_error"
      ELSE IF has("i/o error")
      THEN "io_error"
      ELSE IF has("network") /\ (has("unreachable") \/ has("refused"))
      THEN "network_error"
      ELSE IF has("service") /\ has("failed")
      THEN "service_failure"
      ELSE "unknown"

\* CrashDetector._determine_cause
determine_cause(line) ==
  LET line_lower == ToLower(line)
      has(w) == Contains(line_lower, w)
  IN  IF has("kernel") /\ (has("panic") \/ has("oops"))
      THEN "kernel_panic"
      ELSE IF has("segfault")
      THEN "segmentation_fault"
      ELSE IF has("out of memory") \/ has("oom")
      THEN "out_of_memory"
      ELSE IF has("hardware error") \/ has("machine check")
      THEN "hardware_error"
      ELSE IF has("filesystem") /\ has("error")
      THEN "filesystem_error"
      ELSE IF has("i/o error")
      THEN "io_error"
      ELSE IF has("network") /\ (has("unreachable") \/ has("refused"))
      THEN "network_error"
      ELSE IF has("service") /\ has("failed")
      THEN "service_failure"
      ELSE "unknown"

\* The default patterns are literal texts separated by ".*": the text of
\* the pattern and its literals in order.
P(pattern, parts) == [pattern |-> pattern, parts |-> parts]

crash_patterns == <<
  P("kernel:.*panic.*", << "kernel:", "panic" >>),
  P("kernel:.*Oops.*", << "kernel:", "Oops" >>),
  P("kernel:.*BUG.*", << "kernel:", "BUG" >>),
  P("kernel:.*Call Trace.*", << "kernel:", "Call Trace" >>),
  P("segfault.*", << "segfault" >>),
  P("general protection fault.*", << "general protection fault" >>),
  P("Out of memory.*", << "Out of memory" >>),
  P("oom-killer.*", << "oom-killer" >>),
  P("Memory cgroup out of memory.*", << "Memory cgroup out of memory" >>),
  P("Machine check events logged.*", << "Machine check events logged" >>),
  P("Hardware Error.*", << "Hardware Error" >>),
  P("EDAC.*error.*", << "EDAC", "error" >>),
  P(".*service.*failed.*", << "service", "failed" >>),
  P(".*systemd.*failed.*", << "systemd", "failed" >>),
  P(".*crashed.*", << "crashed" >>),
  P(".*filesystem.*error.*", << "filesystem", "error" >>),
  P(".*I/O error.*", << "I/O error" >>),
  P(".*corruption.*", << "corruption" >>),
  P(".*network.*unreachable.*", << "network", "unreachable" >>),
  P(".*connection.*refused.*", << "connection", "refused" >>) >>

\* the literals occur in s in this order, one after the end of the other
RECURSIVE InOrder(_, _)
InOrder(parts, s) ==
  IF parts = <<>> THEN TRUE
  ELSE LET t == parts[1]
           at == { i \in 1..(Len(s) - Len(t) + 1) :
                     SubSeq(s, i, i + Len(t) - 1) = t }
       IN  /\ at # {}
           /\ InOrder(Tail(parts), SubSeq(s, Min(at) + Len(t), Len(s)))

\* re.search with re.IGNORECASE
SearchIgnoreCase(p, line) ==
  InOrder([i \in 1..Len(p.parts) |-> ToLower(p.parts[i])], ToLower(line))

\* CrashDetector._extract_crash_info
extract_crash_info(line, pattern) ==
  [timestamp       |-> extract_timestamp(crash_timestamp_patterns, line),
   pattern_matched |-> pattern,
   severity        |-> determine_severity(line),
   cause           |-> determine_cause(line)]

\* CrashDetector._analyze_line: << >> for None, or the one event
crash_analyze_line(line) ==
  LET hits == { i \in 1..Len(crash_patterns) :
                  SearchIgnoreCase(crash_patterns[i], line) }
  IN  IF line = "" \/ hits = {} THEN << >>
      ELSE << extract_crash_info(line, crash_patterns[Min(hits)].pattern) >>

\* LogMonitor._get_default_log_configs
default_log_configs ==
  [auth   |-> << P("Failed password.*", << "Failed password" >>),
                 P("Invalid user.*", << "Invalid user" >>),
                 P("authentication failure.*",
                   << "authentication failure" >>) >>,
   nginx  |-> << P(".*\\[error\\].*", << "[error]" >>),
                 P(".*\\[crit\\].*", << "[crit]" >>),
                 P(".*\\[alert\\].*", << "[alert]" >>),
                 P(".*\\[emerg\\].*", << "[emerg]" >>) >>,
   apache |-> << P(".*\\[error\\].*", << "[error]" >>),
                 P(".*\\[crit\\].*", << "[crit]" >>),
                 P(".*\\[alert\\].*", << "[alert]" >>),
                 P(".*\\[emerg\\].*", << "[emerg]" >>) >>,
   mysql  |-> << P(".*ERROR.*", << "ERROR" >>),
                 P(".*FATAL.*", << "FATAL" >>),
                 P(".*Aborted connection.*", << "Aborted connection" >>) >>]

Group(elems, first) == [elems |-> elems, first |-> first, last |-> Len(elems)]
IpChars == Digits \cup { "." }

\* user\s+(\w+), from\s+([0-9.]+), Invalid user\s+(\w+), client:\s+([0-9.]+)
\* and client\s+([0-9.]+)
user_re == Group(Lit("user") \o Plus(SpaceChars) \o Plus(WordChars), 6)
ip_re == Group(Lit("from") \o Plus(SpaceChars) \o Plus(IpChars), 6)
invalid_user_re ==
  Group(Lit("Invalid user") \o Plus(SpaceChars) \o Plus(WordChars), 14)
nginx_client_re ==
  Group(Lit("client:") \o Plus(SpaceChars) \o Plus(IpChars), 9)
apache_client_re ==
  Group(Lit("client") \o Plus(SpaceChars) \o Plus(IpChars), 8)

\* a parser that looks for "Invalid user" before "Failed password"
parse_auth_log_invalid_first(line, pattern) ==
  LET invalid == Contains(line, "Invalid user")
      failed  == ~invalid /\ Contains(line, "Failed password")
  IN  [type            |-> "auth_event",
       timestamp       |-> extract_timestamp(log_timestamp_patterns, line),
       pattern_matched |-> pattern,
       severity        |-> IF failed \/ invalid THEN "high" ELSE "medium",
       event_type      |-> IF failed THEN "failed_login"
                           ELSE IF invalid THEN "invalid_user" ELSE "absent",
       username        |-> IF failed THEN ReGroup(user_re, line)
                           ELSE IF invalid THEN ReGroup(invalid_user_re, line)
                           ELSE "absent",
       source_ip       |-> IF failed THEN ReGroup(ip_re, line) ELSE "absent"]

\* LogMonitor._parse_auth_log
parse_auth_log(line, pattern) ==
  LET failed  == Contains(line, "Failed password")
      invalid == ~failed /\ Contains(line, "Invalid user")
  IN  [type            |-> "auth_event",
       timestamp       |-> extract_timestamp(log_timestamp_patterns, line),
       pattern_matched |-> pattern,
       severity        |-> IF failed \/ invalid THEN "high" ELSE "medium",
       event_type      |-> IF failed THEN "failed_login"
                           ELSE IF invalid THEN "invalid_user" ELSE "absent",
       username        |-> IF failed THEN ReGroup(user_re, line)
                           ELSE IF invalid THEN ReGroup(invalid_user_re, line)
                           ELSE "absent",
       source_ip       |-> IF failed THEN ReGroup(ip_re, line) ELSE "absent"]

\* the severity of _parse_nginx_log and _parse_apache_log
level_severity(line) ==
  IF Contains(line, "[emerg]") THEN "critical"
  ELSE IF Contains(line, "[alert]") \/ Contains(line, "[crit]") THEN "high"
  ELSE IF Contains(line, "[error]") THEN "medium"
  ELSE "low"

\* LogMonitor._parse_nginx_log
parse_nginx_log(line, pattern) ==
  [type            |-> "nginx_error",
   timestamp       |-> extract_timestamp(log_timestamp_patterns, line),
   pattern_matched |-> pattern,
   severity        |-> level_severity(line),
   client_ip       |-> ReGroup(nginx_client_re, line)]

\* LogMonitor._parse_apache_log
parse_apache_log(line, pattern) ==
  [type            |-> "apache_error",
   timestamp       |-> extract_timestamp(log_timestamp_patterns, line),
   pattern_matched |-> pattern,
   severity        |-> level_severity(line),
   client_ip       |-> ReGroup(apache_client_re, line)]

\* LogMonitor._parse_mysql_log
parse_mysql_log(line, pattern) ==
  [type            |-> "mysql_error",
   timestamp       |-> extract_timestamp(log_timestamp_patterns, line),
   pattern_matched |-> pattern,
   severity        |-> IF Contains(line, "FATAL") THEN "critical"
                       ELSE IF Contains(line, "ERROR") THEN "high"
                       ELSE "medium"]

\* LogMonitor._parse_generic_log
parse_generic_log(line, pattern) ==
  LET line_lower == ToLower(line)
  IN  [type            |-> "log_event",
       timestamp       |-> extract_timestamp(log_timestamp_patterns, line),
       pattern_matched |-> pattern,
       severity        |->
         IF AnyIn({"fatal", "critical", "emergency"}, line_lower)
         THEN "critical"
         ELSE IF AnyIn({"error", "fail"}, line_lower)
         THEN "high"
         ELSE IF AnyIn({"warning", "warn"}, line_lower)
         THEN "medium"
         ELSE "low"]

\* LogMonitor._parse_log_line
parse_log_line(line, parser, pattern) ==
  IF parser = "auth" THEN parse_auth_log(line, pattern)
  ELSE IF parser = "nginx" THEN parse_nginx_log(line, pattern)
  ELSE IF parser = "apache" THEN parse_apache_log(line, pattern)
  ELSE IF parser = "mysql" THEN parse_mysql_log(line, pattern)
  ELSE parse_generic_log(line, pattern)

\* LogMonitor._analyze_line with the default config of the parser: << >>
\* for None, or the one event
log_analyze_line(line, parser) ==
  LET patterns == default_log_configs[parser]
      hits == { i \in 1..Len(patterns) : SearchIgnoreCase(patterns[i], line) }
  IN  IF line = "" \/ hits = {} THEN << >>
      ELSE << parse_log_line(line, parser, patterns[Min(hits)].pattern) >>

\* a handler that also sends an alert for an event of severity high
on_log_event_high_too(event) ==
  IF event.severity \in { "error", "critical", "high" }
  THEN << [type |-> "log_event", severity |-> event.severity] >>
  ELSE << >>

\* ServerPulseAgent._on_log_event: the alerts it passes to send_alert
on_log_event(event) ==
  IF event.severity \in { "error", "critical" }
  THEN << [type |-> "log_event", severity |-> event.severity] >>
  ELSE << >>

\* ServerPulseAgent._on_crash_detected: the alerts it passes to send_alert
on_crash_detected(crash_info) ==
  << [type |-> "crash", severity |-> "critical"] >>

\* the callback of the agent for the monitor of this parser, called with
\* the event if there is one
Callback(parser, events) ==
  IF events = << >> THEN << >>
  ELSE IF parser = "crash" THEN on_crash_detected(events[1])
  ELSE on_log_event(events[1])

\* ------------------------------------------------ SpecEvent
\* The functions above applied to lines: sentences of at most MaxWords
\* phrases of a vocabulary, separated by one space.
RECURSIVE Sentences(_, _)
Sentences(V, n) ==
  IF n = 0 THEN { "" }
  ELSE LET S == Sentences(V, n - 1)
       IN  S \cup { IF s = "" THEN w ELSE s \o " " \o w : s \in S, w \in V }

SeverityWords ==
  { "panic", "emerg", "fatal", "alert", "crit", "error", "ERROR", "fail",
    "warning", "Warning", "warn", "started" }
CauseWords ==
  { "Kernel", "panic", "Oops", "segfault", "Out of memory", "OOM",
    "Hardware Error", "machine check", "filesystem", "error", "I/O error",
    "network", "unreachable", "refused", "service", "failed" }
SyslogWords ==
  { "Dec 25 14:30:45", "Jan  2 03:04:05", "2023-12-25T14:30:45", "server",
    "kernel:", "kernel: [12345.678901] Oops: 0002 [#1] SMP", "oops",
    "panic" }
LevelWords ==
  { "[emerg]", "[alert]", "[crit]", "[error]", "[ERROR]", "[Emerg]",
    "[warn]", "client: 10.0.0.5" }
AuthWords ==
  { "Failed password", "Invalid user", "failed password", "for root",
    "for invalid user admin", "Invalid user admin", "from 10.0.0.5",
    "from host", "port 22", "authentication failure" }
MysqlWords == { "[ERROR]", "[Warning]", "FATAL", "Aborted connection" }

Vocabularies ==
  [crash   |-> { SeverityWords, CauseWords, SyslogWords },
   generic |-> { SeverityWords },
   nginx   |-> { LevelWords },
   apache  |-> { LevelWords },
   auth    |-> { AuthWords },
   mysql   |-> { MysqlWords }]
Parsers == DOMAIN Vocabularies

InitEvent ==
  /\ InitFiles(0, [p \in Paths |-> <<>>])
  /\ PairIdle
  /\ AlertIdle
  /\ ServiceIdle
  /\ AgentIdle
  /\ arg_patterns = <<>>
  /\ arg_parser \in Parsers
  /\ kind = IF arg_parser = "crash" THEN "crash" ELSE "log"
  /\ \E V \in Vocabularies[arg_parser] : arg_line \in Sentences(V, MaxWords)
  /\ result = [call |-> "pending"]

\* the line is given to _analyze_line of a monitor with the default
\* patterns: of the crash detector, or of the log monitor's default config
\* with this parser; the event, if there is one, is given to the callback
\* of the agent
analyze_default ==
  /\ result.call = "pending"
  /\ arg_parser \in { "crash" } \cup DOMAIN default_log_configs
  /\ LET events == IF arg_parser = "crash"
                   THEN crash_analyze_line(arg_line)
                   ELSE log_analyze_line(arg_line, arg_parser)
     IN  result' = [call   |-> "_analyze_line",
                    value  |-> events,
                    alerts |-> Callback(arg_parser, events)]
  /\ UNCHANGED << tailVars, pairVars, alert, svc, agent, arg_line, arg_patterns,
                  arg_parser >>

\* the keyword scans applied to the line itself: _determine_severity and
\* _determine_cause of the crash detector, _parse_generic_log of the log
\* monitor (the parser of a custom config), whose event is given to the
\* callback of the agent
scan_keywords ==
  /\ result.call = "pending"
  /\ arg_parser \in { "crash", "generic" }
  /\ result' = [call     |-> "scan",
                severity |-> IF arg_parser = "crash"
                             THEN determine_severity(arg_line)
                             ELSE parse_generic_log(arg_line, ".").severity,
                cause    |-> IF arg_parser = "crash"
                             THEN determine_cause(arg_line)
                             ELSE "absent",
                alerts   |-> IF arg_parser = "crash" THEN << >>
                             ELSE on_log_event(
                                    parse_generic_log(arg_line, "."))]
  /\ UNCHANGED << tailVars, pairVars, alert, svc, agent, arg_line, arg_patterns,
                  arg_parser >>

NextEvent == analyze_default \/ scan_keywords

SpecEvent == InitEvent /\ [][NextEvent]_vars

\* ------------------------------------------------ SpecAlert
\* One call of APIClient.send_alert, as made by the callbacks of the
\* agent.  An attempt is one session.request(..., timeout=self.timeout); it
\* ends with a response or with an exception, after a time the timeout
\* bounds.
Statuses == { 200, 201, 404, 500 }
Exceptions == { "Timeout", "ConnectionError", "RequestException", "Exception" }
Durations == { 0, 1, Timeout }

\* the call at its first attempt: nothing made, nothing returned (response
\* is << >> for None, << status >> for a response)
NewRequest(retries) ==
  [pc |-> "request", retries |-> retries, attempt |-> 0, made |-> 0,
   elapsed |-> 0, waits |-> << >>, outcomes |-> << >>,
   response |-> << >>, result |-> "none"]

InitAlert ==
  /\ InitFiles(0, [p \in Paths |-> <<>>])
  /\ PairIdle
  /\ ClassifyIdle
  /\ ServiceIdle
  /\ AgentIdle
  /\ alert = NewRequest(MaxRetries)

\* one call of _make_request, with the retries its callers give it: the
\* default, the 1 of test_connection, and none
InitRequest ==
  /\ InitFiles(0, [p \in Paths |-> <<>>])
  /\ PairIdle
  /\ ClassifyIdle
  /\ ServiceIdle
  /\ AgentIdle
  /\ \E retries \in { 0, 1, MaxRetries } : alert = NewRequest(retries)

\* a loop that makes one attempt more
attempts_left_one_more(attempt, retries) == attempt <= retries

\* for attempt in range(retries + 1): there is an attempt after this one
attempts_left(attempt, retries) == attempt < retries

\* a function that gives the caller no response of an error status
returned_none_on_error(status) == IF status >= 400 THEN << >> ELSE << status >>

\* return response: whatever its status
returned(status) == << status >>

\* a backoff after every failed attempt, the last one too
wait_always(attempt, retries) == TRUE

\* if attempt < retries: the failed attempt is followed by a sleep
wait_before_retry(attempt, retries) == attempt < retries

\* the end of an iteration that has not returned: the for loop takes the
\* next attempt, or is over, _make_request returns None and send_alert
\* returns False
loop_on(a) ==
  IF attempts_left(a.attempt, a.retries)
  THEN [a EXCEPT !.pc = "request", !.attempt = @ + 1]
  ELSE [a EXCEPT !.pc = "returned", !.result = FALSE]

\* the request of this attempt gets a response: _make_request returns it
\* and send_alert returns whether its status is 200 or 201
request_returns ==
  /\ alert.pc = "request"
  /\ \E status \in Statuses, d \in Durations :
       alert' = [alert EXCEPT !.pc = "returned",
                              !.made = @ + 1,
                              !.elapsed = @ + d,
                              !.outcomes = Append(@, << status >>),
                              !.response = returned(status),
                              !.result = status \in { 200, 201 }]
  /\ UNCHANGED << tailVars, pairVars, classifyVars, svc, agent >>

\* the request raises: the exception is caught and logged; if this was
\* not the last attempt the thread is about to sleep 2 ** attempt seconds,
\* otherwise the loop is over
request_raises ==
  /\ alert.pc = "request"
  /\ \E exc \in Exceptions, d \in Durations :
       /\ exc = "Timeout" => d = Timeout
       /\ LET failed == [alert EXCEPT !.made = @ + 1,
                                      !.elapsed = @ + d,
                                      !.outcomes = Append(@, << >>)]
          IN  alert' = IF wait_before_retry(alert.attempt, alert.retries)
                       THEN [failed EXCEPT !.pc = "wait"]
                       ELSE loop_on(failed)
  /\ UNCHANGED << tailVars, pairVars, classifyVars, svc, agent >>

\* time.sleep(wait_time) ends and the loop goes on
backoff ==
  /\ alert.pc = "wait"
  /\ alert' = loop_on([alert EXCEPT !.elapsed = @ + 2 ^ alert.attempt,
                                    !.waits = Append(@, 2 ^ alert.attempt)])
  /\ UNCHANGED << tailVars, pairVars, classifyVars, svc, agent >>

NextAlert == request_returns \/ request_raises \/ backoff

SpecAlert == InitAlert /\ [][NextAlert]_vars

SpecRequest == InitRequest /\ [][NextAlert]_vars

\* an attempt ends and a sleep ends: the timeout and time.sleep see to it
SpecAlertLive == SpecAlert /\ WF_vars(NextAlert)

\* ------------------------------------------------ SpecService
\* The ServiceMonitor and the thread the agent runs its start_monitoring
\* in, with the agent's _on_service_change as callback.  What systemctl
\* says about a service is the environment: each call of
\* _get_single_service_status returns one of Observations.

\* number of check cycles of a run
MaxCycles == 2

ServiceInterval == 30

services_to_monitor == << "ssh", "nginx" >>
SvcIdx == 1 .. Len(services_to_monitor)

\* dict.get of a key the dict does not have
None == "None"

\* what _get_single_service_status can return, by the two fields that
\* _check_service_changes compares: the output of systemctl is-active, the
\* ActiveState of systemctl show (a later command, so the two can differ),
\* and the dict of a timeout, which has no active_state
Observations ==
  [status : { "active", "failed" }, active_state : { "active", "failed" }]
    \cup { [status |-> "timeout", active_state |-> None] }

NoCheck == [service |-> 0]

InitService ==
  /\ InitFiles(0, [p \in Paths |-> <<>>])
  /\ PairIdle
  /\ ClassifyIdle
  /\ AlertIdle
  /\ AgentIdle
  /\ svc = [pc |-> "start", running |-> FALSE, stop_event |-> FALSE,
            service_status |-> << >>, cur |-> 0, cycles |-> 0,
            sleepFor |-> 0, unreported |-> [i \in SvcIdx |-> << >>],
            last |-> NoCheck]
\* (unreported: service -> the change whose callback raised at the last
\* check of the service, if it did; last: what the last iteration of the
\* for loop read, called and found unreported)

\* a comparison that looks at the status only
changed_status_only(previous_status, current_status) ==
  previous_status.status # current_status.status

\* the condition of the if in _check_service_changes
changed(previous_status, current_status) ==
  \/ previous_status.status # current_status.status
  \/ previous_status.active_state # current_status.active_state

\* an update of the stored status that does not wait for the callback
stored_after_always(stored, i, current_status, raised) ==
  [stored EXCEPT ![i] = current_status]

\* self.service_status[service] = current_status is the statement after the
\* callback, inside the try: an exception of the callback skips it
stored_after(stored, i, current_status, raised) ==
  IF raised THEN stored ELSE [stored EXCEPT ![i] = current_status]

\* start_monitoring up to its loop: the status of every service is stored,
\* no callback is called
svc_start ==
  /\ svc.pc = "start"
  /\ \E first \in [SvcIdx -> Observations] :
       svc' = [svc EXCEPT !.pc = "loop", !.running = TRUE,
                          !.service_status = first]
  /\ UNCHANGED << tailVars, pairVars, classifyVars, alert, agent >>

\* while not stop_event.is_set() and self.running: one more cycle
svc_enter_cycle ==
  /\ svc.pc = "loop"
  /\ ~svc.stop_event /\ svc.running
  /\ svc.cycles < MaxCycles
  /\ svc' = [svc EXCEPT !.pc = "check", !.cur = 1, !.last = NoCheck]
  /\ UNCHANGED << tailVars, pairVars, classifyVars, alert, agent >>

\* the loop condition is false: start_monitoring returns
svc_exit ==
  /\ svc.pc = "loop"
  /\ svc.stop_event \/ ~svc.running
  /\ svc' = [svc EXCEPT !.pc = "done"]
  /\ UNCHANGED << tailVars, pairVars, classifyVars, alert, agent >>

\* one iteration of the for loop of _check_service_changes: the status is
\* read and compared with the stored one; if they differ the callback is
\* called, and it returns or raises; unless it raised the status read is
\* stored.  The except clause of the iteration logs, and the loop goes on.
svc_check ==
  /\ svc.pc = "check"
  /\ \E current_status \in Observations, raises \in BOOLEAN :
       LET i               == svc.cur
           previous_status == svc.service_status[i]
           differs         == changed(previous_status, current_status)
           raised          == differs /\ raises
           call            == IF differs
                              THEN << [service |-> services_to_monitor[i],
                                       old_status |-> previous_status.status,
                                       new_status |-> current_status.status] >>
                              ELSE << >>
           last_one        == i = Len(services_to_monitor)
       IN  /\ raises => differs
           /\ svc' = [svc EXCEPT
                 !.service_status =
                     stored_after(@, i, current_status, raised),
                 !.unreported[i] =
                     IF raised
                     THEN << [current |-> current_status, call |-> call[1]] >>
                     ELSE << >>,
                 !.last = [service |-> i, previous |-> previous_status,
                           current |-> current_status, callback |-> call,
                           raised |-> raised,
                           unreported |-> svc.unreported[i]],
                 !.cur = IF last_one THEN 0 ELSE i + 1,
                 !.pc = IF last_one THEN "sleep" ELSE "check",
                 !.sleepFor = IF last_one THEN ServiceInterval ELSE 0,
                 !.cycles = IF last_one THEN @ + 1 ELSE @]
  /\ UNCHANGED << tailVars, pairVars, classifyVars, alert, agent >>

\* time.sleep(30) ends
svc_wake ==
  /\ svc.pc = "sleep"
  /\ svc' = [svc EXCEPT !.pc = "loop", !.sleepFor = 0]
  /\ UNCHANGED << tailVars, pairVars, classifyVars, alert, agent >>

\* ServiceMonitor.stop, from any other thread
svc_stop ==
  /\ svc.pc \notin { "start", "done" }
  /\ svc.running
  /\ svc' = [svc EXCEPT !.running = FALSE]
  /\ UNCHANGED << tailVars, pairVars, classifyVars, alert, agent >>

\* the agent sets the event it gave to start_monitoring
svc_set_stop_event ==
  /\ svc.pc \notin { "start", "done" }
  /\ ~svc.stop_event
  /\ svc' = [svc EXCEPT !.stop_event = TRUE]
  /\ UNCHANGED << tailVars, pairVars, classifyVars, alert, agent >>

NextService ==
  \/ svc_start
  \/ svc_enter_cycle
  \/ svc_exit
  \/ svc_check
  \/ svc_wake
  \/ svc_stop
  \/ svc_set_stop_event

SpecService == InitService /\ [][NextService]_vars

\* ------------------------------------------------ SpecAgent
\* The process: main() creates a ServerPulseAgent and calls its start(),
\* which initialises it, starts the three monitoring threads, schedules
\* the two periodic tasks and runs them from its loop, one iteration a
\* second, until a signal stops it.

\* seconds the main loop runs for
MaxSeconds == 61

HeartbeatInterval == 60
DefaultCollectionInterval == 30

\* collection.interval of the configuration
CollectionIntervals == { 1, DefaultCollectionInterval }

\* how initialize() ends: Config or setup_logger or APIClient raises,
\* register_agent returns False, a collector's constructor raises, or all
\* of it works
InitOutcomes ==
  { "config_raises", "logger_raises", "api_client_raises",
    "register_false", "collector_raises", "ok" }

MonitoringThreads == { "crash", "log", "service" }
PeriodicTasks == { "metrics", "heartbeat" }

InitAgent ==
  /\ InitFiles(0, [p \in Paths |-> <<>>])
  /\ PairIdle
  /\ ClassifyIdle
  /\ AlertIdle
  /\ ServiceIdle
  /\ \E interval \in CollectionIntervals :
       agent = [pc |-> "start", outcome |-> "pending",
                initialize_returned |-> "pending", running |-> FALSE,
                stop_event |-> FALSE, interval |-> interval,
                threads |-> { }, next_run |-> << >>, clock |-> 0,
                ran |-> [t \in PeriodicTasks |-> 0],
                exit_status |-> << >>]
\* (threads: the threads started; next_run: job of schedule -> second of
\* its next run; ran: job -> times run; exit_status: << >> while the
\* process runs, then << its exit status >>)

\* an initialize() that takes a refused registration for a success
initialize_ignores_registration(outcome) ==
  outcome \in { "ok", "register_false" }

\* what initialize() returns: False after return False of a refused
\* registration and from its except clause, True at its end
initialize(outcome) == outcome = "ok"

\* start(): initialize() returns False; sys.exit(1) raises SystemExit,
\* which neither except clause of main() catches: the process exits with
\* status 1
agent_initialize_fails ==
  /\ agent.pc = "start"
  /\ \E outcome \in InitOutcomes :
       /\ ~initialize(outcome)
       /\ agent' = [agent EXCEPT !.pc = "exited",
                                 !.outcome = outcome,
                                 !.initialize_returned = "False",
                                 !.exit_status = << 1 >>]
  /\ UNCHANGED << tailVars, pairVars, classifyVars, alert, svc >>

\* start(): initialize() returns True; self.running = True, the signal
\* handlers are installed
agent_initialized ==
  /\ agent.pc = "start"
  /\ \E outcome \in InitOutcomes :
       /\ initialize(outcome)
       /\ agent' = [agent EXCEPT !.pc = "threads",
                                 !.outcome = outcome,
                                 !.initialize_returned = "True",
                                 !.running = TRUE]
  /\ UNCHANGED << tailVars, pairVars, classifyVars, alert, svc >>

\* _start_monitoring_threads
agent_start_threads ==
  /\ agent.pc = "threads"
  /\ agent' = [agent EXCEPT !.pc = "schedule",
                            !.threads = MonitoringThreads]
  /\ UNCHANGED << tailVars, pairVars, classifyVars, alert, svc >>

\* schedule.every(interval).seconds.do(...): the first run of a job is one
\* interval from now
agent_schedule ==
  /\ agent.pc = "schedule"
  /\ agent' = [agent EXCEPT
         !.pc = "loop",
         !.next_run = [t \in PeriodicTasks |->
                         IF t = "metrics" THEN agent.interval
                                          ELSE HeartbeatInterval]]
  /\ UNCHANGED << tailVars, pairVars, classifyVars, alert, svc >>

\* one iteration of while self.running: run_pending() runs the jobs that
\* are due and sets their next run, time.sleep(1)
agent_tick ==
  /\ agent.pc = "loop"
  /\ agent.running
  /\ agent.clock < MaxSeconds
  /\ LET due(t)    == agent.clock >= agent.next_run[t]
         period(t) == IF t = "metrics" THEN agent.interval
                                       ELSE HeartbeatInterval
     IN  agent' = [agent EXCEPT
           !.ran = [t \in PeriodicTasks |-> IF due(t) THEN @[t] + 1 ELSE @[t]],
           !.next_run = [t \in PeriodicTasks |->
                           IF due(t) THEN agent.clock + period(t) ELSE @[t]],
           !.clock = @ + 1]
  /\ UNCHANGED << tailVars, pairVars, classifyVars, alert, svc >>

\* SIGTERM or SIGINT once the handlers are installed: _signal_handler
\* calls stop()
agent_signal ==
  /\ agent.pc \in { "threads", "schedule", "loop" }
  /\ agent.running
  /\ agent' = [agent EXCEPT !.running = FALSE, !.stop_event = TRUE]
  /\ UNCHANGED << tailVars, pairVars, classifyVars, alert, svc >>

\* the loop condition is false: finally: self.stop(); start() and main()
\* return
agent_returns ==
  /\ agent.pc = "loop"
  /\ ~agent.running
  /\ agent' = [agent EXCEPT !.pc = "exited", !.stop_event = TRUE,
                            !.exit_status = << 0 >>]
  /\ UNCHANGED << tailVars, pairVars, classifyVars, alert, svc >>

NextAgent ==
  \/ agent_initialize_fails
  \/ agent_initialized
  \/ agent_start_threads
  \/ agent_schedule
  \/ agent_tick
  \/ agent_signal
  \/ agent_returns

SpecAgent == InitAgent /\ [][NextAgent]_vars

\* C1: for a file that existed at the start and has only been appended to,
\* the line batches read so far are, in order, complete lines appended
\* since the start, and all of them once a poll has seen the whole file.
NoLossNoDuplication ==
  \A i \in SrcIdx :
    LET p       == sources[i].path
        written == CompleteLines(Rest(content[p], startLen[p]))
    IN  ( /\ pc \notin {"start", "crashed"}
          /\ p \notin disturbed
          /\ IsBoundary(content[p], startLen[p]) )
        => /\ IsPrefix(batches[i], written)
           /\ polledLen[p] = Len(content[p]) => batches[i] = written

\* C2: bytes at the end of the file that have no line terminator are not
\* handed to classification: every line passed to _analyze_line is a
\* complete line.
PartialLineDeferred ==
  \A i \in SrcIdx : \A k \in 1..Len(handed[i]) : ~Unterminated(handed[i][k])

\* C3: a poll that finds the file smaller than the stored offset reads the
\* file from its beginning and leaves an offset inside the file.
TruncationResetsOffset ==
  [][ \A i \in SrcIdx :
        LET p == sources[i].path
        IN  (ReadStep(i) /\ Len(content[p]) < CurrentPos(p))
            => /\ ReadFromStart(i)
               /\ file_positions'[p] <= Len(content[p]) ]_vars

\* C4: a poll that finds another file at the path than the one it read
\* last reads it from its beginning, also when that file is at least as
\* long as the stored offset.
RotationByIdentityResetsOffset ==
  [][ \A i \in SrcIdx :
        LET p == sources[i].path
        IN  ( /\ ReadStep(i)
              /\ ident[p] # seenIdent[p]
              /\ Len(content[p]) >= CurrentPos(p) )
            => ReadFromStart(i) ]_vars

\* C5: the offset a poll stores is a line boundary of the file it read:
\* the end of the last complete line, not a position inside an
\* unterminated last line.
OffsetIsLineBoundary ==
  [][ \A i \in SrcIdx :
        LET p == sources[i].path
        IN  (ReadStep(i) /\ CurrentPos(p) <= Len(content[p]))
            => IsBoundary(content[p], file_positions'[p]) ]_vars

\* C6: a poll passes to classification exactly the complete lines appended
\* since the previous poll of the path, also when analysing or delivering
\* one of them raises.  Stated for polls of an append-only file that ends
\* with a terminator now and did at the previous poll, so that no
\* unterminated line is involved.
ClassifiedExactlyOnce ==
  [][ \A i \in SrcIdx :
        LET p == sources[i].path
            f == content[p]
        IN  ( /\ ReadStep(i)
              /\ p \notin disturbed
              /\ polledLen[p] <= Len(f)
              /\ IsBoundary(f, polledLen[p])
              /\ IsBoundary(f, Len(f)) )
            => handed'[i] =
                 handed[i] \o CompleteLines(Rest(f, polledLen[p])) ]_vars

\* C7: an iteration that finds its file missing reads no line, hands none
\* to classification, calls no callback, and leaves file_positions as it
\* was: the entry of the path is neither changed nor created.
MissingFileLeavesState ==
  [][ (pc = "poll" /\ ~exists[sources[cur].path] /\ cycleLog' # cycleLog)
      => /\ file_positions' = file_positions
         /\ batches' = batches
         /\ handed' = handed
         /\ sink_calls' = sink_calls ]_vars

\* a missing file has been skipped while its path has a stored offset
MissingFileSkipped ==
  \E k \in 1..Len(cycleLog) :
    /\ cycleLog[k] = "missing"
    /\ sources[k].path \in DOMAIN file_positions
    /\ file_positions[sources[k].path] > 0

\* C8: an iteration whose open() or readlines() raises leaves
\* file_positions unchanged, reads and delivers nothing, does not let the
\* exception out of _check_log_files, and the loop goes on with the next
\* source of the same cycle.
IOErrorIsolated ==
  [][ \A i \in SrcIdx :
        (IterStep(i) /\ LastTag(cycleLog') \in {"open_error", "read_error"})
        => /\ file_positions' = file_positions
           /\ batches' = batches
           /\ handed' = handed
           /\ sink_calls' = sink_calls
           /\ pc' # "raised"
           /\ i < NumSources => (pc' = "poll" /\ cur' = i + 1)
           /\ i = NumSources => pc' = "returned" ]_vars

\* the first source failed with an I/O error and the second one was read,
\* with new lines, in the same cycle
IOErrorThenNextRead ==
  /\ pc = "returned"
  /\ Len(cycleLog) = 2
  /\ cycleLog[1] \in {"open_error", "read_error"}
  /\ cycleLog[2] = "ok"
  /\ batches[2] # <<>>

\* C9: an exception raised while a source is polled or classified never
\* aborts the cycle: when _check_log_files is over, every source has had
\* its iteration.
ExceptionNeverAbortsCycle ==
  pc \in {"returned", "raised"} => Len(cycleLog) = NumSources

\* C10: after a cycle in which the callback raised (and nothing else went
\* wrong), the loop sleeps for the cooldown (30 s, 60 s), not for the
\* normal interval.
SinkErrorCoolsDown ==
  [][ ( /\ pc \in {"returned", "raised"}
        /\ "sink_error" \in Range(cycleLog)
        /\ Range(cycleLog) \subseteq {"ok", "sink_error"}
        /\ pc' \in {"sleep", "cooldown"} )
      => sleepFor' = Cooldown ]_vars

\* the states of the thread inside the while loop of start_monitoring
LoopStates == {"loop", "poll", "returned", "raised", "sleep", "cooldown"}

\* C11: once the thread is in its while loop, no exception of a poll, of
\* the classification or of the callback ends start_monitoring: the loop
\* is left only by its condition, after stop_event was set or stop() was
\* called.
LoopExitsOnlyOnCancel ==
  [][ (pc \in LoopStates)
      => /\ pc' # "crashed"
         /\ pc' = "done" => (stop_event \/ ~running) ]_vars

\* the loop has ended by its condition after the analysis of a line had
\* raised in one of its cycles
LoopExitedAfterErrors ==
  /\ pc = "done"
  /\ \E i \in SrcIdx : \E k \in 1..Len(handed[i]) :
       analyze_line(Strip(handed[i][k]), sources[i].patterns) = "raise"

\* C12: a sleep during which stop_event is set does not run to the end of
\* its interval: while the event is set and time is left, the time left
\* does not run out.
CancelInterruptsSleep ==
  [][ ( /\ pc \in {"sleep", "cooldown"}
        /\ stop_event
        /\ sleepFor > 0 )
      => (sleepFor' > 0 \/ pc' = "done") ]_vars

\* the callback invocations and the lines handed to _analyze_line that a
\* step adds
NewCalls == SubSeq(sink_calls', Len(sink_calls) + 1, Len(sink_calls'))
NewHanded(i) == SubSeq(handed'[i], Len(handed[i]) + 1, Len(handed'[i]))
NewBatch(i) == SubSeq(batches'[i], Len(batches[i]) + 1, Len(batches'[i]))

\* the events of the lines of source i, one per line that matches, in the
\* order of the lines
RECURSIVE EventsOf(_, _)
EventsOf(i, lines) ==
  IF lines = <<>> THEN <<>>
  ELSE LET line == Strip(Head(lines))
           r    == analyze_line(line, sources[i].patterns)
       IN  (IF r \in {"none", "raise"} THEN <<>>
            ELSE << [src |-> i, line |-> line, pattern |-> r] >>)
           \o EventsOf(i, Tail(lines))

\* C13: a cycle visits the sources in configuration order, each at most
\* once, and all of them when _check_log_files returns.  The iteration of
\* source i analyses lines of its batch in file order and has called the
\* callback, in that order, for exactly the matching lines among those it
\* has analysed, whether or not the batch was cut short; so the event of a
\* line is delivered before the next line is analysed, and every event of
\* source i before any event of source i + 1.
DeliveryOrder ==
  [][ \A i \in SrcIdx :
        IterStep(i)
        => /\ Len(cycleLog) = i - 1
           /\ IsPrefix(NewHanded(i), NewBatch(i))
           /\ NewCalls = EventsOf(i, NewHanded(i))
           /\ pc' = "poll" => cur' = i + 1
           /\ pc' = "returned" => i = NumSources ]_vars

\* a cycle is over in which two lines of the first source, read in file
\* order, have been delivered one after the other
TwoEventsInFileOrder ==
  /\ pc = "returned"
  /\ Len(batches[1]) = 2
  /\ Len(sink_calls) = 2
  /\ \A k \in 1..2 : sink_calls[k] = [src |-> 1, pattern |-> "s",
                                       line |-> Strip(batches[1][k])]

\* C14: lines that were in a file when start_monitoring began are never
\* read: a poll of the file the monitor has seen at the path, which ended
\* with a complete line at the start, does not read from an offset below
\* the size the file had then.
PreexistingLinesNeverRead ==
  [][ \A i \in SrcIdx :
        LET p == sources[i].path
        IN  ( /\ ReadStep(i)
              /\ ident[p] = seenIdent[p]
              /\ startLen[p] \in 1..Len(content[p])
              /\ content[p][startLen[p]] = NL )
            => CurrentPos(p) >= startLen[p] ]_vars

\* C15: a source that was missing at the monitor's last poll of it and is
\* there again, holding nothing but complete lines written since it
\* reappeared, is read: the poll that opens it reads those lines.  (A poll
\* stores an offset that is not below the one it started from, so lines it
\* leaves behind the offset are not read by a later poll either.)
RecoveredSourceIsRead ==
  [][ \A i \in SrcIdx :
        LET p == sources[i].path
            f == content[p]
        IN  ( /\ ReadStep(i)
              /\ seenIdent[p] = NoFile
              /\ IsBoundary(f, Len(f)) )
            => NewBatch(i) = CompleteLines(f) ]_vars

\* some pattern of source i matches the stripped line
Matches(i, line) ==
  \E k \in 1..Len(sources[i].patterns) :
    /\ sources[i].patterns[k] # BadPattern
    /\ Search(sources[i].patterns[k], line)

\* the bytes f are one line with its terminator
OneCompleteLine(f) == f # <<>> /\ FirstLineLen(f) = Len(f) /\ f[Len(f)] = NL

\* C16: for a file that was there, readable and empty at the start and has
\* only been appended to: a poll that finds it empty calls the callback
\* not at all; the first poll after one complete matching line has been
\* appended calls it exactly once, for that line; a poll that finds the
\* file as the last poll left it calls it not at all.
OneLineOneEvent ==
  [][ \A i \in SrcIdx :
        LET p == sources[i].path
            f == content[p]
        IN  (ReadStep(i) /\ startLen[p] = 0 /\ p \notin disturbed)
            => /\ f = <<>> => NewCalls = <<>>
               /\ ( /\ polledLen[p] = 0
                    /\ OneCompleteLine(f)
                    /\ Matches(i, Strip(f)) )
                  => /\ Len(NewCalls) = 1
                     /\ NewCalls[1].src = i
                     /\ NewCalls[1].line = Strip(f)
               /\ polledLen[p] = Len(f) => NewCalls = <<>> ]_vars

\* the one line appended to the empty first file has been read as one
\* line and delivered once, and the file is about to be polled again
OneLineDelivered ==
  /\ pc = "poll" /\ cur = 1
  /\ startLen["p1"] = 0 /\ "p1" \notin disturbed
  /\ content["p1"] = <<"s", NL>>
  /\ batches[1] = << content["p1"] >>
  /\ polledLen["p1"] = 2
  /\ Len(sink_calls) = 1

\* the bytes of a sequence of lines
RECURSIVE Flatten(_)
Flatten(lines) ==
  IF lines = <<>> THEN <<>> ELSE Head(lines) \o Flatten(Tail(lines))

\* what instance m has read is what was appended to the shared file
\* between its start and its offset: every byte once and in order, and,
\* when none of its polls ended in a line without terminator, every line
\* once
ReadsOwnTail(m) ==
  LET pos  == OwnPos(m)
      tail == SubSeq(shared, inst[m].startLen + 1, pos)
  IN  /\ pos \in inst[m].startLen..Len(shared)
      /\ Flatten(inst[m].batches) = tail
      /\ ~inst[m].partial => inst[m].batches = CompleteLines(tail)

\* C17: the crash detector and the log monitor tailing the same path: a
\* step of one instance never changes the stored offset, or anything else,
\* of the other, and under every interleaving of their polls each of them
\* has read exactly what was appended since its own start, once.
InstancesIndependent ==
  /\ [](\A m \in Instances : inst[m].started => ReadsOwnTail(m))
  /\ [][ \A m \in Instances :
           inst'[m] # inst[m]
           => \A o \in Instances \ {m} : inst'[o] = inst[o] ]_vars

\* both instances have read lines of the shared file and are at different
\* offsets
PairBothRead ==
  /\ \A m \in Instances : inst[m].started /\ inst[m].batches # <<>>
  /\ OwnPos("crash_detector") # OwnPos("log_monitor")
  /\ inst["crash_detector"].startLen # inst["log_monitor"].startLen

\* C18: _analyze_line never raises, whatever the line and the pattern
\* strings of the table: it returns an event or None.
ClassificationNeverRaises == result # "raise"

\* the places of the table whose pattern occurs in the line
MatchingPlaces(pats, line) == { k \in 1..Len(pats) : pats[k] \in Range(line) }

\* the patterns at the places 1..n are patterns the regex engine accepts
ValidUpTo(pats, n) == \A j \in 1..n : pats[j] # BadPattern

\* C19: when some pattern of the table matches the line, the event names
\* the first one in table order that does, whatever follows it in the
\* table (patterns that match as well, or a pattern that would raise if it
\* were consulted); when none matches, there is no event.  Stated for
\* tables whose patterns are valid up to the place that decides.
FirstMatchWins ==
  result # "pending"
  => LET ks    == MatchingPlaces(arg_patterns, arg_line)
         first == CHOOSE k \in ks : \A j \in ks : k <= j
     IN  /\ (ks # {} /\ ValidUpTo(arg_patterns, first))
            => result = arg_patterns[first]
         /\ (ks = {} /\ ValidUpTo(arg_patterns, Len(arg_patterns)))
            => result = "none"

\* a line that both patterns of the table match has been classified by
\* the first of them
FirstOfTwoMatches ==
  /\ result = "x"
  /\ arg_patterns = <<"x", "s">>
  /\ {"s", "x"} \subseteq Range(arg_line)

\* the line read from source i is, once stripped, not empty and contains
\* one of the patterns of the source
EventExpected(i, raw) ==
  \E k \in 1..Len(sources[i].patterns) :
    /\ sources[i].patterns[k] # BadPattern
    /\ sources[i].patterns[k] \in Range(Strip(raw))

\* C20: the lines an iteration analyses produce zero or one callback
\* invocation each: as many invocations as there are lines that match,
\* each for a stripped, non-empty line that contains its pattern; a line
\* that is empty once stripped or matches no pattern produces none.
ZeroOrOneEventPerLine ==
  [][ \A i \in SrcIdx :
        ReadStep(i)
        => LET lines == NewHanded(i)
               hits  == { k \in 1..Len(lines) : EventExpected(i, lines[k]) }
           IN  /\ Len(NewCalls) = Cardinality(hits)
               /\ \A c \in 1..Len(NewCalls) :
                    /\ NewCalls[c].src = i
                    /\ NewCalls[c].line # <<>>
                    /\ NewCalls[c].pattern \in Range(NewCalls[c].line) ]_vars

\* a blank line and a matching line of the first source have been
\* analysed, and the callback was called once
BlankAndMatchingLine ==
  /\ handed[1] = << <<NL>>, <<"s">> >>
  /\ Len(sink_calls) = 1
  /\ sink_calls[1].line = <<"s">>

\* ------------------------------------------------ the fields of an event
\* the keyword scan was applied to the line; the case-folded line contains w
Scanned == result.call = "scan"
Folded == ToLower(arg_line)
Has(w) == Contains(Folded, w)

\* the keywords each scan looks for first
CriticalWords ==
  IF arg_parser = "crash" THEN { "panic", "oops", "fatal", "critical" }
  ELSE { "fatal", "critical", "emergency" }

\* C21 as stated: a line that contains both "warning" and "error", in
\* either order and any letter case, is given severity high by the keyword
\* scan.
WarningAndErrorIsHigh ==
  (Scanned /\ Has("warning") /\ Has("error")) => result.severity = "high"

\* C21, amended: such a line is given severity high unless it also contains
\* one of the keywords the scan looks for first, and then critical; it is
\* never given medium or low.
ErrorOutranksWarning ==
  (Scanned /\ Has("warning") /\ Has("error"))
    => result.severity =
         IF AnyIn(CriticalWords, Folded) THEN "critical" ELSE "high"

\* "warning" before "error", in two letter cases, scanned by the crash
\* detector
WarningThenErrorScanned ==
  /\ Scanned
  /\ arg_parser = "crash"
  /\ arg_line = "Warning ERROR started"
  /\ result.severity = "high"

\* C22: the severity of a line is decided by the same keyword groups for
\* every source type, first matching group wins: panic, oops, fatal,
\* critical, emerg give critical; otherwise error, fail, segfault, alert,
\* crit give high; otherwise warning, warn give medium; otherwise low.
SeverityByFixedGroups ==
  Scanned =>
    result.severity =
      IF AnyIn({ "panic", "oops", "fatal", "critical", "emerg" }, Folded)
      THEN "critical"
      ELSE IF AnyIn({ "error", "fail", "segfault", "alert", "crit" }, Folded)
      THEN "high"
      ELSE IF AnyIn({ "warning", "warn" }, Folded)
      THEN "medium"
      ELSE "low"

\* the level tokens of nginx and apache and the severity of each, the
\* first of the list that the line contains deciding
LevelTokens ==
  << [token |-> "[emerg]", severity |-> "critical"],
     [token |-> "[alert]", severity |-> "high"],
     [token |-> "[crit]",  severity |-> "high"],
     [token |-> "[error]", severity |-> "medium"] >>

Analysed == result.call = "_analyze_line"
Matched == Analysed /\ result.value # << >>
Event == result.value[1]

\* C23: every line of an nginx or apache source that the default patterns
\* match, which they do in any letter case, gets the severity of its
\* level token, [emerg] being looked for first.
LevelTokenFixesSeverity ==
  (Matched /\ arg_parser \in { "nginx", "apache" })
    => \A k \in 1..Len(LevelTokens) :
         (/\ Has(LevelTokens[k].token)
          /\ \A j \in 1..(k - 1) : ~Has(LevelTokens[j].token))
           => Event.severity = LevelTokens[k].severity

\* the decision list of C24: what the line must contain, and the cause
CauseRules ==
  << [when  |-> Has("kernel") /\ (Has("panic") \/ Has("oops")),
      cause |-> "kernel_panic"],
     [when  |-> Has("segfault"),
      cause |-> "segmentation_fault"],
     [when  |-> Has("out of memory") \/ Has("oom"),
      cause |-> "out_of_memory"],
     [when  |-> Has("hardware error") \/ Has("machine check"),
      cause |-> "hardware_error"],
     [when  |-> Has("filesystem") /\ Has("error"),
      cause |-> "filesystem_error"],
     [when  |-> Has("i/o error"),
      cause |-> "io_error"],
     [when  |-> Has("network") /\ (Has("unreachable") \/ Has("refused")),
      cause |-> "network_error"],
     [when  |-> Has("service") /\ Has("failed"),
      cause |-> "service_failure"] >>

\* C24: the cause the crash detector gives a line is that of the first
\* rule of the decision list that the case-folded line satisfies, and
\* unknown when it satisfies none.
CauseByDecisionList ==
  (Scanned /\ arg_parser = "crash")
    => LET hits == { k \in 1..Len(CauseRules) : CauseRules[k].when }
       IN  result.cause =
             IF hits = {} THEN "unknown" ELSE CauseRules[Min(hits)].cause

\* a line that satisfies the first two rules, in the order that puts the
\* words of the second first
SegfaultInKernelOops ==
  /\ Scanned
  /\ arg_line = "segfault Kernel Oops"
  /\ result.cause = "kernel_panic"

\* the syslog timestamps of the lines of SpecEvent
SyslogStamps == { "Dec 25 14:30:45", "Jan  2 03:04:05" }
StartsWith(s, t) == Len(t) <= Len(s) /\ SubSeq(s, 1, Len(t)) = t

\* C25: a line that starts with a syslog timestamp and contains "kernel:"
\* followed by "Oops", analysed with the default patterns of the crash
\* detector, yields an event with cause kernel_panic, severity critical and
\* the timestamp text of the start of the line.
KernelOopsEvent ==
  \A ts \in SyslogStamps :
    (/\ Analysed
     /\ arg_parser = "crash"
     /\ StartsWith(arg_line, ts \o " ")
     /\ \E i \in 1..(Len(arg_line) - Len("kernel:") + 1) :
          /\ SubSeq(Folded, i, i + Len("kernel:") - 1) = "kernel:"
          /\ Contains(SubSeq(Folded, i + Len("kernel:"), Len(arg_line)),
                      "oops"))
      => /\ Matched
         /\ Event.cause = "kernel_panic"
         /\ Event.severity = "critical"
         /\ Event.timestamp = ts

\* the line of the crash detector's test
OopsLineAnalysed ==
  /\ Analysed
  /\ arg_line =
       "Dec 25 14:30:45 server kernel: [12345.678901] Oops: 0002 [#1] SMP"
  /\ Matched
  /\ Event.timestamp = "Dec 25 14:30:45"
  /\ Event.cause = "kernel_panic"

\* the text of class cls that follows the first place of the line where
\* key stands before white space and a character of cls; "absent" when
\* there is no such place
FieldAfter(key, cls) ==
  LET line == arg_line
      ch(i) == SubSeq(line, i, i)
      \* key ends at i - 1, white space fills i..a-1, the field is a..b
      fields == { f \in (1..Len(line)) \X (1..Len(line)) \X (1..Len(line)) :
                    /\ f[1] > Len(key) /\ f[1] < f[2] /\ f[2] <= f[3]
                    /\ SubSeq(line, f[1] - Len(key), f[1] - 1) = key
                    /\ \A i \in f[1]..(f[2] - 1) : ch(i) \in SpaceChars
                    /\ \A i \in f[2]..f[3] : ch(i) \in cls
                    /\ (f[3] = Len(line) \/ ch(f[3] + 1) \notin cls) }
  IN  IF fields = {} THEN "absent"
      ELSE LET f == CHOOSE g \in fields : \A h \in fields : g[1] <= h[1]
           IN  SubSeq(line, f[2], f[3])

\* C26: a line of an auth source that is matched and contains "Failed
\* password" is a failed_login of severity high, with the user name that
\* follows "user" and the address that follows "from" when the line has
\* them; also when it contains "Invalid user", it is never an invalid_user.
FailedPasswordIsFailedLogin ==
  (Matched /\ arg_parser = "auth" /\ Contains(arg_line, "Failed password"))
    => /\ Event.event_type = "failed_login"
       /\ Event.severity = "high"
       /\ Event.username = FieldAfter("user", WordChars)
       /\ Event.source_ip = FieldAfter("from", IpChars)

\* a line with both texts, a user name and an address
FailedAndInvalidUser ==
  /\ Matched
  /\ arg_line = "Failed password Invalid user admin from 10.0.0.5"
  /\ Event.event_type = "failed_login"
  /\ Event.username = "admin"
  /\ Event.source_ip = "10.0.0.5"

\* ------------------------------------------------ stopping and sharing
\* C27: a call of send_alert returns, after at most MaxRetries + 1
\* attempts, each of at most Timeout seconds, and waits of 1, 2 and 4
\* seconds between them, whatever the server does.
LongestAlert == (MaxRetries + 1) * Timeout + (2 ^ MaxRetries - 1)
AlertBounded ==
  /\ alert.made <= MaxRetries + 1
  /\ IsPrefix(alert.waits, << 1, 2, 4 >>)
  /\ alert.elapsed <= LongestAlert
NothingAfterAgentStop ==
  [][ stop_returned
        => /\ sink_calls' = sink_calls
           /\ ~(pc = "loop" /\ pc' = "poll") ]_vars

\* C29: once stop() of the monitor has been called, at whatever moment
\* after the thread was started, the loop begins no further cycle: the
\* cycle in progress is the last.
NoCycleAfterMonitorStop ==
  [][ (stop_called /\ pc = "loop") => pc' # "poll" ]_vars

\* C30: when two configs of a LogMonitor name the same path, the lines
\* that a cycle hands to the analysis with the first config's patterns are
\* handed to it with the second's too.
SharedPathBothAnalyse ==
  (/\ sources = DupSources
   /\ pc = "returned"
   /\ \A k \in 1..Len(cycleLog) : cycleLog[k] = "ok")
    => handed[2] = handed[1]

\* ------------------------------------------------ offsets, missing files
\* C31: once start_monitoring has stored the offsets, no step makes the
\* stored offset of a path smaller or removes it, also when the file was
\* truncated or replaced by a shorter one.
OffsetNeverDecreases ==
  [][ \A p \in DOMAIN file_positions :
        /\ p \in DOMAIN file_positions'
        /\ file_positions'[p] >= file_positions[p] ]_vars

\* a cycle has read a file that is shorter than the stored offset
PolledShorterFile ==
  \E i \in SrcIdx :
    LET p == sources[i].path
    IN  /\ pc = "returned"
        /\ cycleLog[i] = "ok"
        /\ p \in DOMAIN file_positions
        /\ file_positions[p] > Len(content[p])

\* some iteration of this step reads the file at path p
ReadsPath(p) == \E j \in SrcIdx : sources[j].path = p /\ ReadStep(j)

\* C32: start_monitoring stores no offset for a path whose file is missing
\* and 0 or the size for one that is there (0 when it cannot be opened);
\* a path without offset stays without until a poll reads its file; and
\* the poll that reads a file whose path has no offset or offset 0 reads
\* it from its first byte: all its lines are handed to the analysis and
\* the matching ones delivered, when nothing raises.
UnseenFileReadFromZero ==
  [][ \A i \in SrcIdx :
        LET p == sources[i].path
            f == content[p]
        IN  /\ (pc = "start" /\ pc' = "loop" /\ ~exists[p])
                 => p \notin DOMAIN file_positions'
            /\ (pc = "start" /\ pc' = "loop" /\ exists[p])
                 => /\ p \in DOMAIN file_positions'
                    /\ file_positions'[p] \in { 0, Len(f) }
            /\ (pc # "start" /\ p \notin DOMAIN file_positions
                  /\ ~ReadsPath(p))
                 => p \notin DOMAIN file_positions'
            /\ (/\ ReadStep(i)
                /\ (p \in DOMAIN file_positions => file_positions[p] = 0))
                 => /\ NewBatch(i) = SplitLines(f)
                    /\ LastTag(cycleLog') = "ok"
                         => /\ NewHanded(i) = NewBatch(i)
                            /\ NewCalls = EventsOf(i, NewBatch(i)) ]_vars

\* the file of a source was missing when start_monitoring ran, is there
\* now with a line that matches, and the poll has come to it
MissingAtStartNowThere ==
  \E i \in SrcIdx :
    LET p == sources[i].path
    IN  /\ pc = "poll"
        /\ cur = i
        /\ p \notin DOMAIN file_positions
        /\ exists[p]
        /\ content[p] = << "s" >>

\* ------------------------------------------------ alerts for log events
\* an event of the log monitor has been built and given to _on_log_event:
\* its severity
LogEventSeverity ==
  IF Scanned THEN result.severity ELSE Event.severity
LogEventHandled ==
  \/ Scanned /\ arg_parser = "generic"
  \/ Matched /\ arg_parser # "crash"

\* C33: an event of the log monitor has severity low, medium, high or
\* critical, and an alert is sent for it exactly when the severity is
\* error or critical: never for an event of severity high.
AlertOnlyForErrorOrCritical ==
  LogEventHandled
    => /\ LogEventSeverity \in { "low", "medium", "high", "critical" }
       /\ result.alerts # << >>
            <=> LogEventSeverity \in { "error", "critical" }
       /\ LogEventSeverity = "high" => result.alerts = << >>

\* a failed login, of severity high, for which no alert was sent
FailedLoginNotAlerted ==
  /\ Matched
  /\ arg_parser = "auth"
  /\ Event.event_type = "failed_login"
  /\ Event.severity = "high"
  /\ result.alerts = << >>

\* ---------------------------------------------------- service changes
\* the step is one iteration of the for loop of _check_service_changes
ServiceChecked == svc.pc = "check" /\ svc'.cur # svc.cur

\* C34: in a check cycle the callback is called for a service exactly when
\* the status or the active_state read differs from the stored one, with
\* the service, the stored status and the status read; the status read is
\* then the stored one (unless the callback raised); storing the first
\* status at the start calls nothing; so a service read as it is stored,
\* be it unchanged or changed and reported a cycle ago, calls nothing.
ServiceChangeDetection ==
  [][ /\ (ServiceChecked) =>
           LET i == svc.cur
               c == svc'.last
               stored == svc.service_status[i]
           IN  /\ c.service = i
               /\ c.previous = stored
               /\ (c.callback # << >>)
                    <=> ( \/ stored.status # c.current.status
                          \/ stored.active_state # c.current.active_state )
               /\ (c.callback # << >>) =>
                    c.callback = << [service |-> services_to_monitor[i],
                                     old_status |-> stored.status,
                                     new_status |-> c.current.status] >>
               /\ ~c.raised => svc'.service_status[i] = c.current
               /\ \A j \in SvcIdx \ { i } :
                    svc'.service_status[j] = svc.service_status[j]
      /\ (~ServiceChecked) =>
           /\ svc'.last \in { svc.last, NoCheck }
           /\ svc.pc # "start" => svc'.service_status = svc.service_status
    ]_vars

\* a service whose is-active output stayed "active" while its ActiveState
\* went to "failed" has been reported and stored
ActiveStateChangeReported ==
  /\ svc.pc \in { "check", "sleep" }
  /\ svc.last # NoCheck
  /\ svc.last.previous = [status |-> "active", active_state |-> "active"]
  /\ svc.last.current = [status |-> "active", active_state |-> "failed"]
  /\ svc.last.callback # << >>
  /\ ~svc.last.raised
  /\ svc.service_status[svc.last.service] = svc.last.current

\* C35: when the callback raises, the stored status of the service stays
\* what it was and the for loop goes on to the next service; at the next
\* check of the service, if it reads the same status again, the callback
\* is called again with the same arguments.
CallbackFailureIsRetried ==
  [][ (ServiceChecked) =>
        LET i == svc.cur
            c == svc'.last
        IN  /\ c.raised =>
                 /\ svc'.service_status[i] = svc.service_status[i]
                 /\ svc'.unreported[i] # << >>
                 /\ i < Len(services_to_monitor) =>
                      svc'.pc = "check" /\ svc'.cur = i + 1
                 /\ i = Len(services_to_monitor) => svc'.pc = "sleep"
            /\ ( /\ c.unreported # << >>
                 /\ c.unreported[1].current = c.current ) =>
                 c.callback = << c.unreported[1].call >>
    ]_vars

\* the callback of the first service raised in one cycle and has been
\* called again for the same change in the next, the second service still
\* to be checked
FailedReportRepeated ==
  /\ svc.pc = "check"
  /\ svc.cur = 2
  /\ svc.cycles = 1
  /\ svc.last # NoCheck
  /\ svc.last.unreported # << >>
  /\ svc.last.unreported[1].current = svc.last.current
  /\ svc.last.callback = << svc.last.unreported[1].call >>

\* ---------------------------------------------------- _make_request
\* C36: _make_request returns the first response it gets, whatever its
\* status: every attempt before the last one made has raised, a response
\* ends the call and is what the call returns, and the call returns None
\* exactly when it has made retries + 1 attempts and all of them raised.
FirstResponseReturned ==
  LET n == Len(alert.outcomes)
  IN  alert.pc # "idle" =>
        /\ n = alert.made
        /\ n <= alert.retries + 1
        /\ \A k \in 1 .. n - 1 : alert.outcomes[k] = << >>
        /\ (n > 0 /\ alert.outcomes[n] # << >>) => alert.pc = "returned"
        /\ alert.pc = "returned" =>
              /\ n > 0
              /\ alert.response = alert.outcomes[n]
              /\ (alert.response = << >>) <=>
                   ( /\ n = alert.retries + 1
                     /\ \A k \in 1 .. n : alert.outcomes[k] = << >> )

\* two attempts raised and the third got a 500, which the call returned
ErrorStatusReturned ==
  /\ alert.pc = "returned"
  /\ alert.retries = MaxRetries
  /\ alert.outcomes = << << >>, << >>, << 500 >> >>
  /\ alert.response = << 500 >>

\* C37: the waits of a call are 1, 2, 4, ...: one of 2^i seconds after
\* failed attempt i and before attempt i + 1, none after the last attempt
\* the loop allows and none after an attempt that got a response.
BackoffDoubles ==
  alert.pc # "idle" =>
    /\ \A k \in 1 .. Len(alert.waits) : alert.waits[k] = 2 ^ (k - 1)
    /\ Len(alert.waits) <= alert.retries
    /\ alert.pc = "request" =>
          Len(alert.waits) = alert.made /\ alert.attempt = alert.made
    /\ alert.pc = "wait" =>
          /\ Len(alert.waits) = alert.made - 1
          /\ alert.outcomes[alert.made] = << >>
          /\ alert.made <= alert.retries
    /\ alert.pc = "returned" => Len(alert.waits) = alert.made - 1

\* all four attempts of a call with the default retries raised: it waited
\* 1, 2 and 4 seconds and returned None
WaitedOneTwoFour ==
  /\ alert.pc = "returned"
  /\ alert.retries = MaxRetries
  /\ alert.response = << >>
  /\ alert.made = MaxRetries + 1
  /\ alert.waits = << 1, 2, 4 >>

\* ---------------------------------------------------- failed start
\* C38: when initialize() fails (register_agent returns False, or a step
\* of it raises) it returns False, start() starts no monitoring thread and
\* schedules no periodic task, none ever runs, and the process has exited
\* with status 1.
FailedInitializeStartsNothing ==
  (agent.pc \notin { "idle", "start" } /\ agent.outcome # "ok") =>
    /\ agent.initialize_returned = "False"
    /\ ~agent.running
    /\ agent.threads = { }
    /\ agent.next_run = << >>
    /\ \A t \in PeriodicTasks : agent.ran[t] = 0
    /\ agent.pc = "exited"
    /\ agent.exit_status = << 1 >>

\* the server refused the registration and the process has exited
RegistrationRefused ==
  /\ agent.pc = "exited"
  /\ agent.outcome = "register_false"
  /\ agent.exit_status = << 1 >>

====
